---- MODULE Spec2Model ----
\* Verification model of the synapse pub/sub layer:
\*   - RabbitMQSubscriber / RabbitMQPublisher (synapse/adapters/rabbitmq) running
\*     against an AMQP broker reached through pika blocking channels;
\*   - MessageConsumer / AsyncMessageConsumer (synapse/consumer) running against
\*     any subscriber and handler that satisfy the protocols.
EXTENDS Integers, Sequences, FiniteSets, TLC

\* ------------------------------------------------------------------ bounds
MaxPublished == 2     \* messages routed to a queue over a whole behaviour
MaxDeliveries == 2    \* deliveries the broker makes over a whole behaviour, all channels
MaxCalls == 2         \* process_one_message calls, and run() calls, over a whole behaviour

\* ------------------------------------------------------------- value sets
Subscribers == {"s1", "s2"}          \* RabbitMQSubscriber instances on one connection
Queues == {"q1", "q2"}               \* declared queues
Timeouts == {0, 30}                  \* 0: the bound may elapse before a delivery arrives
NoConsumer == "none"
Requested == {1, 2, 10}                 \* max_messages of a pull request
Topics == { <<"q1">>, <<"q2">>, <<"ex", ":", "rk">>, <<"ex", ":", "a", ":", "b">> }
Bindings == { [exchange |-> <<"ex">>, routing_key |-> <<"rk">>, queue |-> "q2"] }

VARIABLES
    queue,          \* broker: queue name -> ready messages, in queue order
    published,      \* number of messages routed to a queue so far
    channel,        \* subscriber -> its channel: [open, next_tag, unacked, consumer]
    pending_acks,   \* subscriber -> correlation table (ack_id -> delivery tag)
    native_acks,    \* every native basic_ack issued, in order: [sub, tag]
    last,           \* the last adapter call and its outcome
    consumer,       \* the consumer object and the position of its caller in run()
    calls,          \* what the consumer called on its subscriber and handler, and the outcomes
    original,       \* an ErrorInfo as constructed
    json_str,       \* <<>> or the JSON it was serialized to, with the options of the dump
    restored        \* <<>> or the outcome of parsing json_str

adapter_vars == <<queue, published, channel, pending_acks, native_acks, last>>

consumer_vars == <<consumer, calls>>

error_vars == <<original, json_str, restored>>

vars == <<adapter_vars, consumer_vars, error_vars>>

\* ------------------------------------------------------------ str(int)
Digit(d) ==
    CASE d = 0 -> "0" [] d = 1 -> "1" [] d = 2 -> "2" [] d = 3 -> "3" [] d = 4 -> "4"
      [] d = 5 -> "5" [] d = 6 -> "6" [] d = 7 -> "7" [] d = 8 -> "8" [] d = 9 -> "9"

RECURSIVE str(_)
str(n) == IF n < 10 THEN Digit(n) ELSE str(n \div 10) \o Digit(n % 10)

\* ------------------------------------------------------------ the broker
\* b is the broker-side state [queue |-> queue, channel |-> channel].

RECURSIVE insert(_, _)
\* A requeued message goes back to its original position in the queue.
insert(q, m) ==
    IF q = <<>> THEN <<m>>
    ELSE IF m.id < Head(q).id THEN <<m>> \o q
    ELSE <<Head(q)>> \o insert(Tail(q), m)

RECURSIVE requeue(_, _, _)
\* basic_nack(requeue=True) of each tag in tags on s's channel.
requeue(b, s, tags) ==
    IF tags = {} THEN b
    ELSE LET t == CHOOSE x \in tags : \A y \in tags : x <= y
             d == b.channel[s].unacked[t]
         IN requeue([b EXCEPT !.queue[d.queue] = insert(@, d.msg),
                              !.channel[s].unacked = [x \in (DOMAIN @) \ {t} |-> @[x]]],
                    s, tags \ {t})

\* channel.consume(queue, auto_ack=False, inactivity_timeout): registers a consumer on
\* the channel; with no prefetch limit the broker pushes k ready messages to it, each
\* under the channel's next delivery tag.
basic_consume(b, s, q, k) ==
    LET ch == b.channel[s]
        delivered == SubSeq(b.queue[q], 1, k)
        fresh == [t \in (ch.next_tag + 1)..(ch.next_tag + k) |->
                     [msg |-> delivered[t - ch.next_tag], queue |-> q]]
    IN [b EXCEPT !.queue[q] = SubSeq(@, k + 1, Len(@)),
                 !.channel[s] = [ch EXCEPT !.consumer = q,
                                           !.next_tag = @ + k,
                                           !.unacked = @ @@ fresh]]

\* channel.cancel(): cancels the consumer; deliveries still buffered in the generator
\* (pending) are nacked with requeue.
cancel(b, s, pending) ==
    [requeue(b, s, pending) EXCEPT !.channel[s].consumer = NoConsumer]

\* The channel is lost: the broker requeues everything unacknowledged on it.
close_channel(b, s) ==
    [requeue(b, s, DOMAIN b.channel[s].unacked) EXCEPT
        !.channel[s].open = FALSE, !.channel[s].consumer = NoConsumer]

\* channel.basic_ack(delivery_tag) on an open channel: a tag the channel holds is
\* settled (the message is gone); an unknown tag makes the broker close the channel.
basic_ack(b, s, tag) ==
    IF tag \in DOMAIN b.channel[s].unacked
    THEN [b EXCEPT !.channel[s].unacked = [x \in (DOMAIN @) \ {tag} |-> @[x]]]
    ELSE close_channel(b, s)

\* ------------------------------------------------------ RabbitMQSubscriber
\* pull minting the ack id from the identity of the message instead of the delivery tag.
pull_id_from_message(b, table, s, request, timeout, k) ==
    IF ~b.channel[s].open
    THEN [b |-> b, table |-> table, raised |-> TRUE, response |-> <<>>]
    ELSE LET q == request.subscription
             b1 == basic_consume(b, s, q, k)
             delivery_tag == b.channel[s].next_tag + 1
             got == k > 0
             ack_id == str(b1.channel[s].unacked[delivery_tag].msg.id)
             table1 == IF got
                       THEN [x \in (DOMAIN table) \cup {ack_id} |->
                                IF x = ack_id THEN delivery_tag ELSE table[x]]
                       ELSE table
             received_messages ==
                 IF got
                 THEN << [message |-> [data |-> b1.channel[s].unacked[delivery_tag].msg.data],
                          ack_id |-> ack_id] >>
                 ELSE <<>>
             pending == {t \in DOMAIN b1.channel[s].unacked : t > delivery_tag}
         IN [b |-> cancel(b1, s, pending), table |-> table1, raised |-> FALSE,
             response |-> received_messages]

\* pull treating the inactivity timeout as an error.
pull_raises_on_timeout(b, table, s, request, timeout, k) ==
    IF ~b.channel[s].open \/ k = 0
    THEN [b |-> b, table |-> table, raised |-> TRUE, response |-> <<>>]
    ELSE LET q == request.subscription
             b1 == basic_consume(b, s, q, k)
             delivery_tag == b.channel[s].next_tag + 1
             ack_id == str(delivery_tag)
             table1 == [x \in (DOMAIN table) \cup {ack_id} |->
                           IF x = ack_id THEN delivery_tag ELSE table[x]]
             pending == {t \in DOMAIN b1.channel[s].unacked : t > delivery_tag}
         IN [b |-> cancel(b1, s, pending), table |-> table1, raised |-> FALSE,
             response |-> << [message |-> [data |-> b1.channel[s].unacked[delivery_tag].msg.data],
                              ack_id |-> ack_id] >>]

\* pull returning without cancelling its consume stream.
pull_without_cancel(b, table, s, request, timeout, k) ==
    IF ~b.channel[s].open
    THEN [b |-> b, table |-> table, raised |-> TRUE, response |-> <<>>]
    ELSE LET q == request.subscription
             b1 == basic_consume(b, s, q, k)
             delivery_tag == b.channel[s].next_tag + 1
             ack_id == str(delivery_tag)
         IN IF k = 0
            THEN [b |-> b1, table |-> table, raised |-> FALSE, response |-> <<>>]
            ELSE [b |-> b1,
                  table |-> [x \in (DOMAIN table) \cup {ack_id} |->
                                IF x = ack_id THEN delivery_tag ELSE table[x]],
                  raised |-> FALSE,
                  response |-> << [message |-> [data |-> b1.channel[s].unacked[delivery_tag].msg.data],
                                   ack_id |-> ack_id] >>]

\* pull draining the consume stream and keeping the last delivery instead of the first.
pull_takes_last(b, table, s, request, timeout, k) ==
    IF ~b.channel[s].open
    THEN [b |-> b, table |-> table, raised |-> TRUE, response |-> <<>>]
    ELSE LET q == request.subscription
             b1 == basic_consume(b, s, q, k)
             delivery_tag == b.channel[s].next_tag + k
             ack_id == str(delivery_tag)
             pending == {x \in DOMAIN b1.channel[s].unacked :
                            x > b.channel[s].next_tag /\ x < delivery_tag}
         IN IF k = 0
            THEN [b |-> cancel(b1, s, {}), table |-> table, raised |-> FALSE, response |-> <<>>]
            ELSE [b |-> cancel(b1, s, pending),
                  table |-> [x \in (DOMAIN table) \cup {ack_id} |->
                                IF x = ack_id THEN delivery_tag ELSE table[x]],
                  raised |-> FALSE,
                  response |-> << [message |-> [data |-> b1.channel[s].unacked[delivery_tag].msg.data],
                                   ack_id |-> ack_id] >>]

\* pull collecting deliveries until it has max_messages of them.
pull_up_to_max(b, table, s, request, timeout, k) ==
    IF ~b.channel[s].open
    THEN [b |-> b, table |-> table, raised |-> TRUE, response |-> <<>>]
    ELSE LET q == request.subscription
             b1 == basic_consume(b, s, q, k)
             first == b.channel[s].next_tag + 1
             n == IF k < request.max_messages THEN k ELSE request.max_messages
             taken == first..(first + n - 1)
             pending == {x \in DOMAIN b1.channel[s].unacked : x >= first + n}
         IN [b |-> cancel(b1, s, pending),
             table |-> [x \in (DOMAIN table) \cup {str(tg) : tg \in taken} |->
                           IF \E tg \in taken : x = str(tg)
                           THEN CHOOSE tg \in taken : x = str(tg) ELSE table[x]],
             raised |-> FALSE,
             response |-> [i \in 1..n |->
                              [message |-> [data |-> b1.channel[s].unacked[first + i - 1].msg.data],
                               ack_id |-> str(first + i - 1)]]]

\* pull surfacing again, when the bound elapses, the oldest delivery it still holds.
pull_redelivers_held(b, table, s, request, timeout, k) ==
    IF ~b.channel[s].open
    THEN [b |-> b, table |-> table, raised |-> TRUE, response |-> <<>>]
    ELSE LET q == request.subscription
             b1 == basic_consume(b, s, q, k)
             held == DOMAIN b.channel[s].unacked
             delivery_tag == IF k > 0 THEN b.channel[s].next_tag + 1
                             ELSE CHOOSE x \in held : \A y \in held : x <= y
             ack_id == str(delivery_tag)
             pending == {x \in DOMAIN b1.channel[s].unacked : x > b.channel[s].next_tag + 1}
         IN IF k = 0 /\ held = {}
            THEN [b |-> cancel(b1, s, {}), table |-> table, raised |-> FALSE, response |-> <<>>]
            ELSE [b |-> cancel(b1, s, pending),
                  table |-> [x \in (DOMAIN table) \cup {ack_id} |->
                                IF x = ack_id THEN delivery_tag ELSE table[x]],
                  raised |-> FALSE,
                  response |-> << [message |-> [data |-> b1.channel[s].unacked[delivery_tag].msg.data],
                                   ack_id |-> ack_id] >>]

\* pull numbering its ack ids by the entries the table holds instead of the delivery tag.
pull_id_from_table_size(b, table, s, request, timeout, k) ==
    IF ~b.channel[s].open
    THEN [b |-> b, table |-> table, raised |-> TRUE, response |-> <<>>]
    ELSE LET q == request.subscription
             b1 == basic_consume(b, s, q, k)
             delivery_tag == b.channel[s].next_tag + 1
             got == k > 0
             ack_id == str(Cardinality(DOMAIN table) + 1)
             table1 == IF got
                       THEN [x \in (DOMAIN table) \cup {ack_id} |->
                                IF x = ack_id THEN delivery_tag ELSE table[x]]
                       ELSE table
             received_messages ==
                 IF got
                 THEN << [message |-> [data |-> b1.channel[s].unacked[delivery_tag].msg.data],
                          ack_id |-> ack_id] >>
                 ELSE <<>>
             pending == {t \in DOMAIN b1.channel[s].unacked : t > delivery_tag}
         IN [b |-> cancel(b1, s, pending), table |-> table1, raised |-> FALSE,
             response |-> received_messages]

\* pull consuming with auto_ack=True: the broker settles every delivery as it makes it.
pull_auto_ack(b, table, s, request, timeout, k) ==
    IF ~b.channel[s].open
    THEN [b |-> b, table |-> table, raised |-> TRUE, response |-> <<>>]
    ELSE LET q == request.subscription
             b1 == basic_consume(b, s, q, k)
             delivery_tag == b.channel[s].next_tag + 1
             got == k > 0
             ack_id == str(delivery_tag)
             table1 == IF got
                       THEN [x \in (DOMAIN table) \cup {ack_id} |->
                                IF x = ack_id THEN delivery_tag ELSE table[x]]
                       ELSE table
             received_messages ==
                 IF got
                 THEN << [message |-> [data |-> b1.channel[s].unacked[delivery_tag].msg.data],
                          ack_id |-> ack_id] >>
                 ELSE <<>>
             settled == [b1 EXCEPT !.channel[s].unacked =
                                       [x \in DOMAIN b.channel[s].unacked |-> @[x]]]
         IN [b |-> cancel(settled, s, {}), table |-> table1, raised |-> FALSE,
             response |-> received_messages]

\* pull(request, timeout); k is the number of deliveries the broker pushed to the
\* consume stream before it was cancelled.
pull(b, table, s, request, timeout, k) ==
    IF ~b.channel[s].open
    THEN [b |-> b, table |-> table, raised |-> TRUE, response |-> <<>>]
    ELSE LET q == request.subscription
             b1 == basic_consume(b, s, q, k)
             delivery_tag == b.channel[s].next_tag + 1
             got == k > 0
             ack_id == str(delivery_tag)
             table1 == IF got
                       THEN [x \in (DOMAIN table) \cup {ack_id} |->
                                IF x = ack_id THEN delivery_tag ELSE table[x]]
                       ELSE table
             received_messages ==
                 IF got
                 THEN << [message |-> [data |-> b1.channel[s].unacked[delivery_tag].msg.data],
                          ack_id |-> ack_id] >>
                 ELSE <<>>
             pending == {t \in DOMAIN b1.channel[s].unacked : t > delivery_tag}
         IN [b |-> cancel(b1, s, pending), table |-> table1, raised |-> FALSE,
             response |-> received_messages]

RECURSIVE acknowledge_keyerror(_, _, _)
\* acknowledge popping without a default: an unknown ack id is a KeyError.
acknowledge_keyerror(st, s, ack_ids) ==
    IF ack_ids = <<>> THEN st
    ELSE LET ack_id == Head(ack_ids)
         IN IF ack_id \notin DOMAIN st.table THEN [st EXCEPT !.raised = TRUE]
            ELSE LET delivery_tag == st.table[ack_id]
                     popped == [x \in (DOMAIN st.table) \ {ack_id} |-> st.table[x]]
                 IN IF ~st.b.channel[s].open
                    THEN [st EXCEPT !.table = popped, !.raised = TRUE]
                    ELSE acknowledge_keyerror(
                             [st EXCEPT !.table = popped,
                                        !.b = basic_ack(@, s, delivery_tag),
                                        !.acks = Append(@, [sub |-> s, tag |-> delivery_tag])],
                             s, Tail(ack_ids))

RECURSIVE acknowledge_get(_, _, _)
\* acknowledge looking the ack id up without removing it from the table.
acknowledge_get(st, s, ack_ids) ==
    IF ack_ids = <<>> THEN st
    ELSE LET ack_id == Head(ack_ids)
         IN IF ack_id \notin DOMAIN st.table THEN acknowledge_get(st, s, Tail(ack_ids))
            ELSE LET delivery_tag == st.table[ack_id]
                 IN IF ~st.b.channel[s].open
                    THEN [st EXCEPT !.raised = TRUE]
                    ELSE acknowledge_get(
                             [st EXCEPT !.b = basic_ack(@, s, delivery_tag),
                                        !.acks = Append(@, [sub |-> s, tag |-> delivery_tag])],
                             s, Tail(ack_ids))

RECURSIVE acknowledge_pop_only(_, _, _)
\* acknowledge dropping the table entry without the native basic_ack.
acknowledge_pop_only(st, s, ack_ids) ==
    IF ack_ids = <<>> THEN st
    ELSE LET ack_id == Head(ack_ids)
         IN acknowledge_pop_only(
                [st EXCEPT !.table = [x \in (DOMAIN st.table) \ {ack_id} |-> st.table[x]]],
                s, Tail(ack_ids))

RECURSIVE acknowledge_any_table(_, _, _)
\* acknowledge with one correlation table for all instances: an ack id is looked up in
\* the entries of every instance, those of the instance itself first.
acknowledge_any_table(st, s, ack_ids) ==
    IF ack_ids = <<>> THEN st
    ELSE LET ack_id == Head(ack_ids)
             owners == IF ack_id \in DOMAIN st.table THEN {s}
                       ELSE {x \in Subscribers : ack_id \in DOMAIN pending_acks[x]}
         IN IF owners = {} THEN acknowledge_any_table(st, s, Tail(ack_ids))
            ELSE LET owner == CHOOSE x \in owners : TRUE
                     delivery_tag == IF owner = s THEN st.table[ack_id]
                                     ELSE pending_acks[owner][ack_id]
                     popped == [x \in (DOMAIN st.table) \ {ack_id} |-> st.table[x]]
                 IN IF ~st.b.channel[s].open
                    THEN [st EXCEPT !.table = popped, !.raised = TRUE]
                    ELSE acknowledge_any_table(
                             [st EXCEPT !.table = popped,
                                        !.b = basic_ack(@, s, delivery_tag),
                                        !.acks = Append(@, [sub |-> s, tag |-> delivery_tag])],
                             s, Tail(ack_ids))

RECURSIVE acknowledge_reversed(_, _, _)
\* acknowledge going through the ack ids from the last to the first.
acknowledge_reversed(st, s, ack_ids) ==
    IF ack_ids = <<>> THEN st
    ELSE LET ack_id == ack_ids[Len(ack_ids)]
             front == SubSeq(ack_ids, 1, Len(ack_ids) - 1)
         IN IF ack_id \notin DOMAIN st.table THEN acknowledge_reversed(st, s, front)
            ELSE LET delivery_tag == st.table[ack_id]
                     popped == [x \in (DOMAIN st.table) \ {ack_id} |-> st.table[x]]
                 IN IF ~st.b.channel[s].open
                    THEN [st EXCEPT !.table = popped, !.raised = TRUE]
                    ELSE acknowledge_reversed(
                             [st EXCEPT !.table = popped,
                                        !.b = basic_ack(@, s, delivery_tag),
                                        !.acks = Append(@, [sub |-> s, tag |-> delivery_tag])],
                             s, front)

RECURSIVE acknowledge_ack_then_pop(_, _, _)
\* acknowledge removing the table entry only once the native ack has gone through.
acknowledge_ack_then_pop(st, s, ack_ids) ==
    IF ack_ids = <<>> THEN st
    ELSE LET ack_id == Head(ack_ids)
         IN IF ack_id \notin DOMAIN st.table THEN acknowledge_ack_then_pop(st, s, Tail(ack_ids))
            ELSE LET delivery_tag == st.table[ack_id]
                     popped == [x \in (DOMAIN st.table) \ {ack_id} |-> st.table[x]]
                 IN IF ~st.b.channel[s].open
                    THEN [st EXCEPT !.raised = TRUE]
                    ELSE acknowledge_ack_then_pop(
                             [st EXCEPT !.table = popped,
                                        !.b = basic_ack(@, s, delivery_tag),
                                        !.acks = Append(@, [sub |-> s, tag |-> delivery_tag])],
                             s, Tail(ack_ids))

RECURSIVE acknowledge(_, _, _)
\* acknowledge(request): st = [b, table, acks, raised]; ack_ids is what is left of
\* request["ack_ids"].
acknowledge(st, s, ack_ids) ==
    IF ack_ids = <<>> THEN st
    ELSE LET ack_id == Head(ack_ids)
             found == ack_id \in DOMAIN st.table
         IN IF ~found THEN acknowledge(st, s, Tail(ack_ids))
            ELSE LET delivery_tag == st.table[ack_id]
                     popped == [x \in (DOMAIN st.table) \ {ack_id} |-> st.table[x]]
                 IN IF ~st.b.channel[s].open
                    THEN [st EXCEPT !.table = popped, !.raised = TRUE]
                    ELSE acknowledge(
                             [st EXCEPT !.table = popped,
                                        !.b = basic_ack(@, s, delivery_tag),
                                        !.acks = Append(@, [sub |-> s, tag |-> delivery_tag])],
                             s, Tail(ack_ids))

\* ------------------------------------------------------- RabbitMQPublisher
\* A topic is its text cut into tokens, ":" being a token of its own.
FirstColon(topic) ==
    IF \E i \in 1..Len(topic) : topic[i] = ":"
    THEN CHOOSE i \in 1..Len(topic) : topic[i] = ":" /\ \A j \in 1..(i - 1) : topic[j] # ":"
    ELSE 0

LastColon(topic) ==
    IF \E i \in 1..Len(topic) : topic[i] = ":"
    THEN CHOOSE i \in 1..Len(topic) : topic[i] = ":" /\ \A j \in (i + 1)..Len(topic) : topic[j] # ":"
    ELSE 0

\* A split of the topic at its last ":".
split_topic_last_colon(topic) ==
    IF LastColon(topic) > 0
    THEN [exchange |-> SubSeq(topic, 1, LastColon(topic) - 1),
          routing_key |-> SubSeq(topic, LastColon(topic) + 1, Len(topic))]
    ELSE [exchange |-> <<>>, routing_key |-> topic]

\* publish(topic, data): the exchange and routing key of the native basic_publish.
split_topic(topic) ==
    IF FirstColon(topic) > 0
    THEN [exchange |-> SubSeq(topic, 1, FirstColon(topic) - 1),
          routing_key |-> SubSeq(topic, FirstColon(topic) + 1, Len(topic))]
    ELSE [exchange |-> <<>>, routing_key |-> topic]

\* A publish that sends the payload as text, bytes that are not ASCII replaced by "?".
publish_encodes_text(topic, data, kwargs) ==
    [basic_publish |-> << [exchange |-> split_topic(topic).exchange,
                           routing_key |-> split_topic(topic).routing_key,
                           body |-> [i \in DOMAIN data |-> IF data[i] > 127 THEN 63 ELSE data[i]],
                           delivery_mode |-> 2] >>,
     result |-> [message_id |-> ""]]

\* A publish that leaves the message transient.
publish_transient(topic, data, kwargs) ==
    [basic_publish |-> << [exchange |-> split_topic(topic).exchange,
                           routing_key |-> split_topic(topic).routing_key,
                           body |-> data,
                           delivery_mode |-> 1] >>,
     result |-> [message_id |-> ""]]

\* publish(topic, data, **_kwargs): the native basic_publish calls it makes, and the
\* PublishFuture it returns.
publish(topic, data, kwargs) ==
    [basic_publish |-> << [exchange |-> split_topic(topic).exchange,
                           routing_key |-> split_topic(topic).routing_key,
                           body |-> data,
                           delivery_mode |-> 2] >>,
     result |-> [message_id |-> ""]]

\* Where the broker routes a publish: the default exchange to the queue named by the
\* routing key, a named exchange by its bindings; unroutable messages are dropped.
Route(exchange, routing_key) ==
    IF exchange = <<>>
    THEN {q \in Queues : routing_key = <<q>>}
    ELSE {bd.queue : bd \in {x \in Bindings : x.exchange = exchange /\ x.routing_key = routing_key}}

\* A call record: the operation, the instance it was called on, whether it raised, the
\* PullResponse of a pull, the requested ack ids an acknowledge did not find in the
\* table, the delivery a nack rejected.
NoCall == [op |-> "none", sub |-> "none", raised |-> FALSE, response |-> <<>>,
           unknown |-> {}, nacked |-> <<>>, sent |-> <<>>, result |-> <<>>]

Broker == [queue |-> queue, channel |-> channel]

RECURSIVE Sum(_, _)
Sum(f, S) == IF S = {} THEN 0 ELSE LET x == CHOOSE y \in S : TRUE IN f[x] + Sum(f, S \ {x})

\* Deliveries made so far, over all channels.
Delivered == Sum([s \in Subscribers |-> channel[s].next_tag], Subscribers)

\* How many ready messages the broker pushes to a consume stream on q before the
\* adapter cancels it: at least one when a message is ready and the bound is not zero.
Deliveries(q, timeout) ==
    IF timeout = 0 \/ queue[q] = <<>> THEN 0..Len(queue[q]) ELSE 1..Len(queue[q])

AckIdPool == {str(t) : t \in 1..MaxDeliveries}
AckIdLists == {<<>>} \cup {<<a>> : a \in AckIdPool} \cup {<<a, b>> : a, b \in AckIdPool}

\* The payload of the n-th published message: every message carries bytes of its own,
\* so that a mix-up of two messages shows in the data.
Payload(n) == <<0, n, 255>>

\* Extra keyword arguments of a publish call, as name/value pairs.
Kwargs == { <<>>, << <<"ordering_key", "k1">> >> }

\* ------------------------------------------------------------------ Init
AdapterInit ==
    /\ queue = [q \in Queues |-> <<>>]
    /\ published = 0
    /\ channel = [s \in Subscribers |->
                    [open |-> TRUE, next_tag |-> 0, unacked |-> <<>>, consumer |-> NoConsumer]]
    /\ pending_acks = [s \in Subscribers |-> <<>>]
    /\ native_acks = <<>>
    /\ last = NoCall

\* A consumer that is constructed and never used. base is the number of calls the
\* consumer had made when its caller last invoked it.
Unused == [variant |-> "sync", subscription |-> "q1", running |-> FALSE, pc |-> "idle",
           frame |-> "none", response |-> <<>>, error |-> "", invocations |-> 0,
           base |-> 0]

\* No ErrorInfo has been constructed.
ErrorUnused == original = <<>> /\ json_str = <<>> /\ restored = <<>>

Init == AdapterInit /\ consumer = Unused /\ calls = <<>> /\ ErrorUnused

\* ---------------------------------------------------------------- actions
PublishWith(topic, data, kwargs) ==
    LET r == publish(topic, data, kwargs)
        native == r.basic_publish[1]
        dest == Route(native.exchange, native.routing_key)
    IN /\ published < MaxPublished
       /\ IF dest = {}
          THEN UNCHANGED <<queue, published>>
          ELSE /\ published' = published + 1
               /\ queue' = [q \in Queues |->
                               IF q \in dest
                               THEN Append(queue[q], [id |-> published + 1, data |-> native.body])
                               ELSE queue[q]]
       /\ last' = [NoCall EXCEPT !.op = "publish", !.sent = r.basic_publish,
                                 !.result = <<r.result>>]
       /\ UNCHANGED <<channel, pending_acks, native_acks>>
       /\ UNCHANGED <<consumer_vars, error_vars>>

Publish(topic, data) == \E kwargs \in Kwargs : PublishWith(topic, data, kwargs)

\* pull(request, timeout) on instance s, the broker delivering k messages to it.
PullMax(s, q, max_messages, timeout, k) ==
    LET r == pull(Broker, pending_acks[s], s,
                  [subscription |-> q, max_messages |-> max_messages], timeout, k)
    IN /\ Delivered + k <= MaxDeliveries
       /\ queue' = r.b.queue
       /\ channel' = r.b.channel
       /\ pending_acks' = [pending_acks EXCEPT ![s] = r.table]
       /\ last' = [NoCall EXCEPT !.op = "pull", !.sub = s, !.response = r.response,
                                 !.raised = r.raised]
       /\ UNCHANGED <<published, native_acks>>
       /\ UNCHANGED <<consumer_vars, error_vars>>

PullOf(s, q, timeout, k) == PullMax(s, q, 1, timeout, k)

Pull(s, q, timeout) == \E k \in Deliveries(q, timeout) : PullOf(s, q, timeout, k)

\* A pull that asks for more than one message.
PullBatch(s, q, max_messages) ==
    \E k \in Deliveries(q, 30) : PullMax(s, q, max_messages, 30, k)

\* An acknowledge that passes over the ids of deliveries from another queue than the one
\* the request names.
AcknowledgeOwnQueue(s, q, ack_ids) ==
    LET Own(a) == (a \in DOMAIN pending_acks[s]
                      /\ pending_acks[s][a] \in DOMAIN channel[s].unacked)
                  => channel[s].unacked[pending_acks[s][a]].queue = q
        r == acknowledge([b |-> Broker, table |-> pending_acks[s], acks |-> native_acks,
                          raised |-> FALSE], s, SelectSeq(ack_ids, Own))
    IN /\ queue' = r.b.queue
       /\ channel' = r.b.channel
       /\ pending_acks' = [pending_acks EXCEPT ![s] = r.table]
       /\ native_acks' = r.acks
       /\ last' = [NoCall EXCEPT !.op = "acknowledge", !.sub = s, !.raised = r.raised,
                                 !.unknown = {ack_ids[i] : i \in 1..Len(ack_ids)}
                                                 \ DOMAIN pending_acks[s]]
       /\ UNCHANGED published
       /\ UNCHANGED <<consumer_vars, error_vars>>

Acknowledge(s, q, ack_ids) ==
    LET r == acknowledge([b |-> Broker, table |-> pending_acks[s], acks |-> native_acks,
                          raised |-> FALSE], s, ack_ids)
    IN /\ queue' = r.b.queue
       /\ channel' = r.b.channel
       /\ pending_acks' = [pending_acks EXCEPT ![s] = r.table]
       /\ native_acks' = r.acks
       /\ last' = [NoCall EXCEPT !.op = "acknowledge", !.sub = s, !.raised = r.raised,
                                 !.unknown = {ack_ids[i] : i \in 1..Len(ack_ids)}
                                                 \ DOMAIN pending_acks[s]]
       /\ UNCHANGED published
       /\ UNCHANGED <<consumer_vars, error_vars>>

\* channel.basic_nack(delivery_tag, requeue=True) issued on the subscriber's channel for
\* a delivery it still holds, the tag looked up in the table by ack id.
BasicNack(s, ack_id) ==
    /\ ack_id \in DOMAIN pending_acks[s]
    /\ channel[s].open
    /\ pending_acks[s][ack_id] \in DOMAIN channel[s].unacked
    /\ LET tag == pending_acks[s][ack_id]
           b1 == requeue(Broker, s, {tag})
           d == [sub |-> s, ack_id |-> ack_id, tag |-> tag,
                 msg |-> channel[s].unacked[tag].msg, queue |-> channel[s].unacked[tag].queue]
       IN /\ queue' = b1.queue
          /\ channel' = b1.channel
          /\ last' = [NoCall EXCEPT !.op = "basic_nack", !.sub = s, !.nacked = <<d>>]
    /\ UNCHANGED <<published, pending_acks, native_acks>>
    /\ UNCHANGED <<consumer_vars, error_vars>>

\* The channel of a subscriber is lost (connection reset, broker-side close).
ChannelLost(s) ==
    /\ channel[s].open
    /\ LET b1 == close_channel(Broker, s)
       IN /\ queue' = b1.queue
          /\ channel' = b1.channel
    /\ last' = [NoCall EXCEPT !.op = "channel_lost", !.sub = s]
    /\ UNCHANGED <<published, pending_acks, native_acks>>
    /\ UNCHANGED <<consumer_vars, error_vars>>

\* One subscriber instance against the broker. Whatever other instances do to a queue
\* (take messages from it, requeue messages to it) Publish and BasicNack do as well.
Next ==
    \/ \E topic \in Topics : Publish(topic, Payload(published + 1))
    \/ \E q \in Queues, timeout \in Timeouts : Pull("s1", q, timeout)
    \/ \E q \in Queues, max_messages \in Requested \ {1} : PullBatch("s1", q, max_messages)
    \/ \E q \in Queues, ack_ids \in AckIdLists : Acknowledge("s1", q, ack_ids)
    \/ \E ack_id \in AckIdPool : BasicNack("s1", ack_id)
    \/ ChannelLost("s1")

Spec == Init /\ [][Next]_vars

\* Several subscriber instances on one connection, each with its own channel, pulling
\* from the same queues.
NextShared ==
    \/ \E topic \in Topics : Publish(topic, Payload(published + 1))
    \/ \E s \in Subscribers, q \in Queues : Pull(s, q, 30)
    \/ \E s \in Subscribers, q \in Queues, a \in AckIdPool : Acknowledge(s, q, <<a>>)
    \/ \E s \in Subscribers, ack_id \in AckIdPool : BasicNack(s, ack_id)

SpecShared == Init /\ [][NextShared]_vars

\* One subscriber instance alone on queue "q1": messages are published to any topic,
\* and pulled and acknowledged through "s1" on "q1"; nothing else touches the queue or
\* the channel.
NextOrdered ==
    \/ \E topic \in Topics : Publish(topic, Payload(published + 1))
    \/ \E timeout \in Timeouts : Pull("s1", "q1", timeout)
    \/ \E ack_ids \in AckIdLists : Acknowledge("s1", "q1", ack_ids)

SpecOrdered == Init /\ [][NextOrdered]_vars

\* ------------------------------------------------------------ consumers
\* MessageConsumer and AsyncMessageConsumer, driven by a caller that invokes run() or
\* process_one_message(), with a subscriber and a handler whose calls may return or raise.

Variants == {"sync", "async"}        \* MessageConsumer, AsyncMessageConsumer
Subscription == "q1"                 \* the subscription the consumer is constructed with
MaxMessages == 1                     \* max_messages of every pull request
PullTimeout == 30                    \* timeout of every pull call
RequiredFields == {"request_id", "data"}     \* the fields of the request model
Callable == {"idle", "returned", "raised"}   \* the caller is not inside the consumer

\* Message bodies, by what json.loads makes of them.
Malformed == [wellformed |-> FALSE, type |-> "none", members |-> <<>>]
JsonArray == [wellformed |-> TRUE, type |-> "array", members |-> <<>>]
JsonMissing == [wellformed |-> TRUE, type |-> "object", members |-> [request_id |-> "r1"]]
JsonValid == [wellformed |-> TRUE, type |-> "object",
              members |-> [request_id |-> "r1", data |-> "d1", extra |-> "x"]]

ReceivedMessage(ack_id, data) == [ack_id |-> ack_id, message |-> [data |-> data]]

\* The pull responses a subscriber may give: none, one, or more messages than asked for.
Responses ==
    {<<>>}
    \cup {<<ReceivedMessage("a1", d)>> : d \in {Malformed, JsonArray, JsonMissing}}
    \cup {<<ReceivedMessage(a, JsonValid)>> : a \in {"a1", "a2"}}
    \cup {<<ReceivedMessage("a2", JsonValid), ReceivedMessage("a1", JsonValid)>>}

Call(op, arg) == [kind |-> "call", op |-> op, arg |-> arg]
Return(op, arg) == [kind |-> "return", op |-> op, arg |-> arg]
Raise(op) == [kind |-> "raise", op |-> op, arg |-> <<>>]

json_loads(data) ==
    IF data.wellformed
    THEN [raised |-> "", value |-> [type |-> data.type, members |-> data.members]]
    ELSE [raised |-> "JSONDecodeError", value |-> <<>>]

\* request_model(**message_data): ** needs a mapping, the model needs its fields and
\* ignores the others.
request_model(message_data) ==
    IF message_data.type # "object"
    THEN [raised |-> "TypeError", value |-> <<>>]
    ELSE IF ~(RequiredFields \subseteq DOMAIN message_data.members)
    THEN [raised |-> "ValidationError", value |-> <<>>]
    ELSE [raised |-> "", value |-> [f \in RequiredFields |-> message_data.members[f]]]

PullRequest(self) == [subscription |-> self.subscription, max_messages |-> MaxMessages]

\* Where process_one_message returns to: the loop of run(), or the outside caller.
Leave(self) == IF self.frame = "run" THEN "run" ELSE "returned"

Raised(self, log, error) == [self |-> [self EXCEPT !.pc = "raised", !.error = error], calls |-> log]

\* --- MessageConsumer

\* A start that flips the flag.
start_toggles(self) == [self EXCEPT !.running = ~@]

start(self) == [self EXCEPT !.running = TRUE]

stop(self) == [self EXCEPT !.running = FALSE]

\* A pull that asks for a batch of messages.
process_one_message_batch(self, log) ==
    [self  |-> [self EXCEPT !.pc = "pull", !.response = <<>>],
     calls |-> Append(log, Call("pull", [request |-> [subscription |-> self.subscription,
                                                      max_messages |-> 10],
                                         timeout |-> PullTimeout]))]

\* process_one_message up to its pull call.
process_one_message(self, log) ==
    [self  |-> [self EXCEPT !.pc = "pull", !.response = <<>>],
     calls |-> Append(log, Call("pull", [request |-> PullRequest(self), timeout |-> PullTimeout]))]

\* A dispatch that indexes the response without looking whether it is empty.
process_one_message_dispatch_unchecked(self, log, response) ==
    IF response = <<>>
    THEN Raised(self, log, "IndexError")
    ELSE LET message_data == json_loads(response[1].message.data)
             request == IF message_data.raised = "" THEN request_model(message_data.value)
                        ELSE message_data
         IN IF request.raised # ""
            THEN Raised([self EXCEPT !.response = response], log, request.raised)
            ELSE [self  |-> [self EXCEPT !.pc = "handle", !.response = response],
                  calls |-> Append(log, Call("handle", request.value))]

\* A dispatch that drops a message it cannot decode or validate and returns.
process_one_message_dispatch_skips_invalid(self, log, response) ==
    IF response = <<>>
    THEN [self |-> [self EXCEPT !.pc = Leave(self)], calls |-> log]
    ELSE LET message_data == json_loads(response[1].message.data)
             request == IF message_data.raised = "" THEN request_model(message_data.value)
                        ELSE message_data
         IN IF request.raised # ""
            THEN [self |-> [self EXCEPT !.pc = Leave(self), !.response = response], calls |-> log]
            ELSE [self  |-> [self EXCEPT !.pc = "handle", !.response = response],
                  calls |-> Append(log, Call("handle", request.value))]

\* process_one_message from the return of pull to the handler call.
process_one_message_dispatch(self, log, response) ==
    IF response = <<>>
    THEN [self |-> [self EXCEPT !.pc = Leave(self)], calls |-> log]
    ELSE LET received_message == response[1]
             message_data == json_loads(received_message.message.data)
             request == IF message_data.raised = "" THEN request_model(message_data.value)
                        ELSE message_data
         IN IF request.raised # ""
            THEN Raised([self EXCEPT !.response = response], log, request.raised)
            ELSE [self  |-> [self EXCEPT !.pc = "handle", !.response = response],
                  calls |-> Append(log, Call("handle", request.value))]

\* An acknowledgement of the last message of the response instead of the handled one.
process_one_message_acknowledge_last(self, log) ==
    [self  |-> [self EXCEPT !.pc = "ack"],
     calls |-> Append(log, Call("acknowledge",
                  [subscription |-> self.subscription,
                   ack_ids |-> <<self.response[Len(self.response)].ack_id>>]))]

\* An acknowledgement that is skipped once stop() has been called.
process_one_message_acknowledge_if_running(self, log) ==
    IF self.running
    THEN [self  |-> [self EXCEPT !.pc = "ack"],
          calls |-> Append(log, Call("acknowledge",
                       [subscription |-> self.subscription,
                        ack_ids |-> <<self.response[1].ack_id>>]))]
    ELSE [self |-> [self EXCEPT !.pc = Leave(self)], calls |-> log]

\* process_one_message from the return of the handler to the acknowledge call.
process_one_message_acknowledge(self, log) ==
    [self  |-> [self EXCEPT !.pc = "ack"],
     calls |-> Append(log, Call("acknowledge",
                  [subscription |-> self.subscription,
                   ack_ids |-> <<self.response[1].ack_id>>]))]

\* A consumer that acknowledges in a finally clause.
process_one_message_raised_acknowledges(self, log, op, error) ==
    IF op = "handle"
    THEN process_one_message_acknowledge([self EXCEPT !.error = error], log)
    ELSE Raised(self, log, error)

\* A consumer that takes a failed pull for an empty one.
process_one_message_raised_retries(self, log, op, error) ==
    IF op = "pull"
    THEN [self |-> [self EXCEPT !.pc = Leave(self)], calls |-> log]
    ELSE Raised(self, log, error)

\* A consumer that stops itself when an error goes through it.
process_one_message_raised_stops(self, log, op, error) ==
    Raised([self EXCEPT !.running = FALSE], log, error)

\* An exception of the subscriber or the handler: nothing catches it, in
\* process_one_message or in run.
process_one_message_raised(self, log, op, error) == Raised(self, log, error)

\* A consumer that goes on to handle the other messages of the response.
process_one_message_return_handles_rest(self, log) ==
    IF Len(self.response) > 1
    THEN [self  |-> [self EXCEPT !.pc = "handle", !.response = Tail(@)],
          calls |-> Append(log, Call("handle",
                       request_model(json_loads(self.response[2].message.data).value).value))]
    ELSE [self |-> [self EXCEPT !.pc = Leave(self)], calls |-> log]

\* process_one_message after acknowledge has returned.
process_one_message_return(self, log) == [self |-> [self EXCEPT !.pc = Leave(self)], calls |-> log]

\* A run that tests the flag after the iteration instead of before it.
run_tests_after(self, log) ==
    IF self.running \/ Len(log) = self.base
    THEN process_one_message(self, log)
    ELSE [self |-> [self EXCEPT !.pc = "returned"], calls |-> log]

\* A run that idles while the flag is false instead of returning.
run_spins(self, log) ==
    IF self.running
    THEN process_one_message(self, log)
    ELSE [self |-> self, calls |-> log]

\* The loop test of run and the call it makes.
run(self, log) ==
    IF self.running
    THEN process_one_message(self, log)
    ELSE [self |-> [self EXCEPT !.pc = "returned"], calls |-> log]

\* --- AsyncMessageConsumer: the same methods as coroutines, each call awaited

async_start(self) == [self EXCEPT !.running = TRUE]

async_stop(self) == [self EXCEPT !.running = FALSE]

async_process_one_message(self, log) ==
    [self  |-> [self EXCEPT !.pc = "pull", !.response = <<>>],
     calls |-> Append(log, Call("pull", [request |-> PullRequest(self), timeout |-> PullTimeout]))]

\* A dispatch that starts the handler as a task of its own and returns.
async_process_one_message_dispatch_spawns(self, log, response) ==
    IF response = <<>>
    THEN [self |-> [self EXCEPT !.pc = Leave(self)], calls |-> log]
    ELSE LET message_data == json_loads(response[1].message.data)
             request == IF message_data.raised = "" THEN request_model(message_data.value)
                        ELSE message_data
         IN IF request.raised # ""
            THEN Raised([self EXCEPT !.response = response], log, request.raised)
            ELSE [self  |-> [self EXCEPT !.pc = Leave(self), !.response = response],
                  calls |-> Append(log, Call("handle", request.value))]

async_process_one_message_dispatch(self, log, response) ==
    IF response = <<>>
    THEN [self |-> [self EXCEPT !.pc = Leave(self)], calls |-> log]
    ELSE LET received_message == response[1]
             message_data == json_loads(received_message.message.data)
             request == IF message_data.raised = "" THEN request_model(message_data.value)
                        ELSE message_data
         IN IF request.raised # ""
            THEN Raised([self EXCEPT !.response = response], log, request.raised)
            ELSE [self  |-> [self EXCEPT !.pc = "handle", !.response = response],
                  calls |-> Append(log, Call("handle", request.value))]

async_process_one_message_acknowledge(self, log) ==
    [self  |-> [self EXCEPT !.pc = "ack"],
     calls |-> Append(log, Call("acknowledge",
                  [subscription |-> self.subscription,
                   ack_ids |-> <<self.response[1].ack_id>>]))]

async_process_one_message_raised(self, log, op, error) == Raised(self, log, error)

async_process_one_message_return(self, log) ==
    [self |-> [self EXCEPT !.pc = Leave(self)], calls |-> log]

async_run(self, log) ==
    IF self.running
    THEN async_process_one_message(self, log)
    ELSE [self |-> [self EXCEPT !.pc = "returned"], calls |-> log]

\* --- the caller, the subscriber and the handler of one consumer

Sync == consumer.variant = "sync"

Pulls == Cardinality({i \in DOMAIN calls : calls[i] = Call("pull", calls[i].arg)})

Apply(r) == consumer' = r.self /\ calls' = r.calls /\ UNCHANGED <<adapter_vars, error_vars>>

Enter(frame) == [consumer EXCEPT !.pc = "run", !.frame = frame, !.error = "",
                                 !.invocations = @ + 1, !.base = Len(calls)]

ConsumerInit ==
    /\ consumer \in {[Unused EXCEPT !.variant = v] : v \in Variants}
    /\ calls = <<>>

Start ==
    Apply([self |-> IF Sync THEN start(consumer) ELSE async_start(consumer), calls |-> calls])

Stop ==
    Apply([self |-> IF Sync THEN stop(consumer) ELSE async_stop(consumer), calls |-> calls])

\* The caller invokes run().
RunCall ==
    /\ consumer.pc \in Callable
    /\ consumer.invocations < MaxCalls
    /\ Apply([self |-> Enter("run"), calls |-> calls])

\* One loop test of run(), and the start of an iteration if it passes.
RunLoop ==
    /\ consumer.pc = "run"
    /\ consumer.running => Pulls < MaxCalls
    /\ Apply(IF Sync THEN run(consumer, calls) ELSE async_run(consumer, calls))

\* The caller invokes process_one_message() itself.
ProcessOneMessageCall ==
    /\ consumer.pc \in Callable
    /\ consumer.invocations < MaxCalls
    /\ Pulls < MaxCalls
    /\ Apply(IF Sync THEN process_one_message(Enter("direct"), calls)
                     ELSE async_process_one_message(Enter("direct"), calls))

PullReturns(response) ==
    /\ consumer.pc = "pull"
    /\ LET log == Append(calls, Return("pull", response))
       IN Apply(IF Sync THEN process_one_message_dispatch(consumer, log, response)
                        ELSE async_process_one_message_dispatch(consumer, log, response))

HandleReturns ==
    /\ consumer.pc = "handle"
    /\ LET log == Append(calls, Return("handle", <<>>))
       IN Apply(IF Sync THEN process_one_message_acknowledge(consumer, log)
                        ELSE async_process_one_message_acknowledge(consumer, log))

AcknowledgeReturns ==
    /\ consumer.pc = "ack"
    /\ LET log == Append(calls, Return("acknowledge", <<>>))
       IN Apply(IF Sync THEN process_one_message_return(consumer, log)
                        ELSE async_process_one_message_return(consumer, log))

\* The call the consumer is waiting in raises.
Raises(op, error) ==
    /\ consumer.pc = (IF op = "acknowledge" THEN "ack" ELSE op)
    /\ LET log == Append(calls, Raise(op))
       IN Apply(IF Sync THEN process_one_message_raised(consumer, log, op, error)
                        ELSE async_process_one_message_raised(consumer, log, op, error))

PullRaises == Raises("pull", "SubscriberError")

HandleRaises == Raises("handle", "HandlerError")

AcknowledgeRaises == Raises("acknowledge", "SubscriberError")

NextConsumer ==
    \/ Start
    \/ Stop
    \/ RunCall
    \/ RunLoop
    \/ ProcessOneMessageCall
    \/ \E response \in Responses : PullReturns(response)
    \/ PullRaises
    \/ HandleReturns
    \/ HandleRaises
    \/ AcknowledgeReturns
    \/ AcknowledgeRaises

InitConsumer == AdapterInit /\ ConsumerInit /\ ErrorUnused

SpecConsumer == InitConsumer /\ [][NextConsumer]_vars

\* ------------------------------------------------------------ adapter properties

\* C4: an acknowledge request none of whose ack ids is in the correlation table raises
\* no error, issues no native basic_ack and leaves the table, the channel and the queues
\* unchanged; in any request, the ids that are not in the table contribute nothing.
C4_AckUnknownIsNoOp ==
    [][\A q \in Queues, ack_ids \in AckIdLists :
          LET table == pending_acks["s1"]
              st == [b |-> Broker, table |-> table, acks |-> native_acks, raised |-> FALSE]
              Known(a) == a \in DOMAIN table
          IN /\ acknowledge(st, "s1", ack_ids) = acknowledge(st, "s1", SelectSeq(ack_ids, Known))
             /\ (Acknowledge("s1", q, ack_ids) /\ SelectSeq(ack_ids, Known) = <<>>)
                => /\ ~last'.raised
                   /\ native_acks' = native_acks
                   /\ pending_acks' = pending_acks
                   /\ channel' = channel
                   /\ queue' = queue]_vars

\* An acknowledge that named an unknown ack id (never issued or no longer in the table)
\* has returned, on a table that still has an entry.
C4_Witness ==
    /\ last.op = "acknowledge"
    /\ last.unknown # {}
    /\ ~last.raised
    /\ pending_acks["s1"] # <<>>

\* C5: no delivery handle is natively acknowledged twice, and the ack id of an
\* acknowledged handle is not in the correlation table.
C5_AckAtMostOnce ==
    /\ \A i, j \in 1..Len(native_acks) : i # j => native_acks[i] # native_acks[j]
    /\ \A i \in 1..Len(native_acks) :
          str(native_acks[i].tag) \notin DOMAIN pending_acks[native_acks[i].sub]

\* An ack id that had been acknowledged was acknowledged again, and nothing was issued.
C5_Witness ==
    /\ last.op = "acknowledge"
    /\ \E i \in 1..Len(native_acks) : str(native_acks[i].tag) \in last.unknown
    /\ Len(native_acks) = 1

\* C6 (as claimed): while its channel is alive, an instance's correlation table has an
\* entry for an ack id exactly when the delivery surfaced under that id has been neither
\* acknowledged nor negatively acknowledged/requeued, i.e. is still held by the channel.
C6_TableIsHeldDeliveries ==
    \A s \in Subscribers :
        channel[s].open =>
            DOMAIN pending_acks[s] = {str(t) : t \in DOMAIN channel[s].unacked}

\* C7: within one instance, a pull that surfaces a message returns an ack id that was
\* not a key of the correlation table, and afterwards every delivery the channel holds
\* has an entry of its own (no two held deliveries share an ack id).
C7_AckIdNotReused ==
    [][(last'.op = "pull" /\ last'.response # <<>>) =>
          LET s == last'.sub
              a == last'.response[1].ack_id
          IN /\ a \notin DOMAIN pending_acks[s]
             /\ \A t \in DOMAIN channel'[s].unacked :
                   \E x \in DOMAIN pending_acks'[s] : pending_acks'[s][x] = t
             /\ \A x, y \in DOMAIN pending_acks'[s] :
                   x # y => pending_acks'[s][x] # pending_acks'[s][y]]_vars

\* A pull has surfaced a second message while the first is still unacknowledged.
C7_Witness ==
    /\ last.op = "pull"
    /\ last.response # <<>>
    /\ Cardinality(DOMAIN channel["s1"].unacked) = 2
    /\ Cardinality(DOMAIN pending_acks["s1"]) = 2

\* A pull on queue q through instance s, made right after the delivery of message M
\* (ack id A) was rejected with requeue, M being next in q, the channel of s alive and
\* the bound long enough for a delivery to arrive.
FreshPullAfterRequeue(s, q) ==
    /\ last.op = "basic_nack"
    /\ last.nacked[1].queue = q
    /\ queue[q] # <<>>
    /\ Head(queue[q]) = last.nacked[1].msg
    /\ channel[s].open
    /\ Pull(s, q, 30)

\* The pull returns exactly M: its bytes, and a table entry for the delivery of M.
ReturnsAgain(s) ==
    /\ ~last'.raised
    /\ Len(last'.response) = 1
    /\ last'.response[1].message.data = last.nacked[1].msg.data
    /\ last'.response[1].ack_id \in DOMAIN pending_acks'[s]
    /\ pending_acks'[s][last'.response[1].ack_id] \in DOMAIN channel'[s].unacked
    /\ channel'[s].unacked[pending_acks'[s][last'.response[1].ack_id]].msg = last.nacked[1].msg

\* C8 (amended): after M was pulled with ack id A and its delivery rejected with requeue,
\* a fresh pull on the same subscription returns M again, through the same instance or
\* another one; through the same instance the new ack id differs from A.
C8_RedeliverySameInstanceNewId ==
    [][\A s \in Subscribers, q \in Queues :
          FreshPullAfterRequeue(s, q)
          => /\ ReturnsAgain(s)
             /\ s = last.nacked[1].sub => last'.response[1].ack_id # last.nacked[1].ack_id]_vars

\* C8 (as claimed): the fresh pull returns M again with an ack id different from A,
\* whichever instance it goes through.
C8_RedeliveryNewId ==
    [][\A s \in Subscribers, q \in Queues :
          FreshPullAfterRequeue(s, q)
          => /\ ReturnsAgain(s)
             /\ last'.response[1].ack_id # last.nacked[1].ack_id]_vars

\* The only message published was pulled by an instance, rejected (the stale entry "1"
\* is still in its table) and pulled again by the same instance under ack id "2".
C8_Witness ==
    \E s \in Subscribers :
        /\ published = 1
        /\ native_acks = <<>>
        /\ last.op = "pull"
        /\ last.sub = s
        /\ Len(last.response) = 1
        /\ last.response[1].ack_id = "2"
        /\ DOMAIN pending_acks[s] = {"1", "2"}
        /\ DOMAIN channel[s].unacked = {2}

\* C10: a pull on an open channel to which no message is delivered within the bound
\* (an empty queue, or the bound elapsing first) returns an empty received_messages
\* without raising, and leaves the correlation table unchanged.
C10_PullEmptyOnTimeout ==
    [][\A q \in Queues, timeout \in Timeouts :
          (channel["s1"].open /\ PullOf("s1", q, timeout, 0))
          => /\ ~last'.raised
             /\ last'.response = <<>>
             /\ pending_acks' = pending_acks
             /\ queue' = queue]_vars

\* A pull found nothing and returned empty while the table holds an entry.
C10_Witness ==
    /\ last.op = "pull"
    /\ ~last.raised
    /\ last.response = <<>>
    /\ channel["s1"].open
    /\ pending_acks["s1"] # <<>>

\* ------------------------------------------------------------ consumer properties

Is(i, k, o) == calls[i].kind = k /\ calls[i].op = o

PullCalls == {i \in DOMAIN calls : Is(i, "call", "pull")}

\* The events of the process_one_message call that event i belongs to.
Iteration(i) == {k \in DOMAIN calls : {p \in PullCalls : p <= k} = {p \in PullCalls : p <= i}}

Made(i, op) == {k \in Iteration(i) : Is(k, "call", op)}

Last(k, o) == calls # <<>> /\ Is(Len(calls), k, o)

\* The step records this outcome of a call the consumer was waiting in.
Happens(k, o) ==
    /\ Len(calls') > Len(calls)
    /\ calls'[Len(calls) + 1].kind = k
    /\ calls'[Len(calls) + 1].op = o

Outcome == calls'[Len(calls) + 1].arg

\* What decoding and validating the first message of a response raises, "" if nothing.
DecodeError(response) ==
    LET message_data == json_loads(response[1].message.data)
    IN IF message_data.raised # "" THEN message_data.raised
       ELSE request_model(message_data.value).raised

\* C1: in every process_one_message call of either consumer in which the handler has
\* returned normally, the consumer has called acknowledge exactly once, as the next thing
\* after the handler's return, with its own subscription and with ack_ids holding exactly
\* the ack_id of the first message of the response that this call's pull returned.
C1_AckOnceAfterHandler ==
    \A h \in DOMAIN calls :
        Is(h, "return", "handle") =>
            \E r \in Iteration(h) :
                /\ r < h
                /\ Is(r, "return", "pull")
                /\ calls[r].arg # <<>>
                /\ DecodeError(calls[r].arg) = ""
                /\ Made(h, "acknowledge") = {h + 1}
                /\ calls[h + 1].arg = [subscription |-> consumer.subscription,
                                       ack_ids |-> <<calls[r].arg[1].ack_id>>]
                /\ calls[h + 1].arg.subscription = Subscription

\* An async consumer inside run() was handed two messages, handled the first and its
\* acknowledge call has returned.
C1_Witness ==
    /\ consumer.variant = "async"
    /\ consumer.frame = "run"
    /\ Last("return", "acknowledge")
    /\ Len(consumer.response) = 2

\* C2: when the first message of a pull response fails JSON decoding or validation, the
\* call raises that error to its caller, out of run() too; the consumer calls neither
\* the handler nor acknowledge in that process_one_message call, and it makes no further
\* call at all until its caller invokes it again.
C2_DecodeErrorPropagates ==
    /\ [](\A r \in DOMAIN calls :
            (Is(r, "return", "pull") /\ calls[r].arg # <<>> /\ DecodeError(calls[r].arg) # "") =>
                /\ Made(r, "handle") = {}
                /\ Made(r, "acknowledge") = {}
                /\ \A k \in Iteration(r) : k <= r)
    /\ [][(Happens("return", "pull") /\ Outcome # <<>> /\ DecodeError(Outcome) # "") =>
              /\ consumer'.pc = "raised"
              /\ consumer'.error = DecodeError(Outcome)
              /\ consumer'.error \in {"JSONDecodeError", "TypeError", "ValidationError"}]_vars
    /\ [][(consumer.pc = "raised" /\ calls' # calls) =>
              consumer'.invocations = consumer.invocations + 1]_vars

\* run() of a sync consumer has raised the validation error of the message it pulled.
C2_Witness ==
    /\ consumer.variant = "sync"
    /\ consumer.frame = "run"
    /\ consumer.pc = "raised"
    /\ consumer.error = "ValidationError"
    /\ Last("return", "pull")

\* C3: when the handler raises, the error leaves process_one_message, and run() when it
\* made the call, and the consumer does not call acknowledge in that call.
C3_HandlerErrorPropagates ==
    /\ [](\A h \in DOMAIN calls :
            Is(h, "raise", "handle") =>
                /\ Made(h, "acknowledge") = {}
                /\ \A k \in Iteration(h) : k <= h)
    /\ [][Happens("raise", "handle") =>
              /\ consumer'.pc = "raised"
              /\ consumer'.error = "HandlerError"
              /\ calls' = Append(calls, Raise("handle"))]_vars

\* The handler of an async consumer has raised out of run().
C3_Witness ==
    /\ consumer.variant = "async"
    /\ consumer.frame = "run"
    /\ consumer.pc = "raised"
    /\ Last("raise", "handle")

\* C9: when pull returns no message, process_one_message returns normally to its caller
\* with no handler call and no acknowledge call; and after it, the next thing run() does
\* is to pull again if the running flag is set, and to return if it is not.
C9_EmptyPullContinues ==
    /\ [](\A r \in DOMAIN calls :
            (Is(r, "return", "pull") /\ calls[r].arg = <<>>) =>
                /\ Made(r, "handle") = {}
                /\ Made(r, "acknowledge") = {}
                /\ \A k \in Iteration(r) : k <= r)
    /\ [][(Happens("return", "pull") /\ Outcome = <<>>) =>
              /\ consumer'.pc = Leave(consumer)
              /\ consumer'.error = ""
              /\ calls' = Append(calls, Return("pull", <<>>))]_vars
    /\ [][(Last("return", "pull") /\ consumer.pc = "run" /\ consumer'.pc # "run") =>
              IF consumer.running
              THEN /\ consumer'.pc = "pull"
                   /\ calls' = Append(calls, Call("pull", [request |-> PullRequest(consumer),
                                                           timeout |-> PullTimeout]))
              ELSE consumer'.pc = "returned" /\ calls' = calls]_vars

\* run() pulled again after a pull that returned nothing.
C9_Witness ==
    /\ consumer.frame = "run"
    /\ consumer.invocations = 1
    /\ \E r \in DOMAIN calls :
           /\ Is(r, "return", "pull")
           /\ calls[r].arg = <<>>
           /\ r < Len(calls)
           /\ Is(r + 1, "call", "pull")

\* C11: when the loop test of run() finds the running flag false before the invocation
\* has made any call, run() returns in that step: no pull, no handler call, no
\* acknowledge, no error.
C11_RunWithoutStart ==
    [][(consumer.pc = "run" /\ Len(calls) = consumer.base /\ ~consumer.running
            /\ consumer'.pc # "run") =>
          /\ consumer'.pc = "returned"
          /\ consumer'.error = ""
          /\ calls' = calls]_vars

\* run() was invoked on a sync consumer that had never made a call, found the flag
\* false and has returned.
C11_Witness ==
    /\ consumer.variant = "sync"
    /\ consumer.frame = "run"
    /\ consumer.pc = "returned"
    /\ ~consumer.running
    /\ calls = <<>>

\* C12: stop() changes the running flag and nothing else, so it interrupts no call in
\* progress; with the flag false inside run(), a pull that returns a valid message is
\* still followed by the handler call, the handler's return by the acknowledge call and
\* the return of acknowledge by the loop test, and that loop test ends run() without
\* another pull.
C12_StopAtIterationBoundary ==
    /\ [][consumer'.running # consumer.running =>
              /\ consumer' = [consumer EXCEPT !.running = ~consumer.running]
              /\ calls' = calls]_vars
    /\ [][(~consumer.running /\ consumer.frame = "run") =>
              /\ (Happens("return", "pull") /\ Outcome # <<>> /\ DecodeError(Outcome) = "") =>
                     /\ consumer'.pc = "handle"
                     /\ Len(calls') = Len(calls) + 2
                     /\ calls'[Len(calls')].kind = "call"
                     /\ calls'[Len(calls')].op = "handle"
              /\ Happens("return", "handle") =>
                     /\ consumer'.pc = "ack"
                     /\ calls' = Append(Append(calls, Return("handle", <<>>)),
                                    Call("acknowledge",
                                         [subscription |-> consumer.subscription,
                                          ack_ids |-> <<consumer.response[1].ack_id>>]))
              /\ Happens("return", "acknowledge") =>
                     /\ consumer'.pc = "run"
                     /\ calls' = Append(calls, Return("acknowledge", <<>>))
              /\ (consumer.pc = "run" /\ consumer'.pc # "run") =>
                     /\ consumer'.pc = "returned"
                     /\ calls' = calls]_vars

\* run() of a sync consumer was stopped, finished the message it had pulled and returned.
C12_Witness ==
    /\ consumer.variant = "sync"
    /\ consumer.frame = "run"
    /\ consumer.pc = "returned"
    /\ ~consumer.running
    /\ Last("return", "acknowledge")
    /\ Len(calls) = consumer.base + 6

HandleCalls == {i \in DOMAIN calls : Is(i, "call", "handle")}

\* C13: every process_one_message call makes at most one handler call, and exactly one
\* when its pull returned a message that decodes and validates, so that the handler has
\* been called at most as many times as process_one_message; and between a handler call
\* and any later pull the handler has returned or raised.
C13_HandlerAtMostOncePerCall ==
    /\ \A p \in PullCalls : Cardinality(Made(p, "handle")) <= 1
    /\ \A r \in DOMAIN calls :
           (Is(r, "return", "pull") /\ calls[r].arg # <<>> /\ DecodeError(calls[r].arg) = "") =>
               Made(r, "handle") = {r + 1}
    /\ Cardinality(HandleCalls) <= Cardinality(PullCalls)
    /\ \A h \in HandleCalls : \A p \in PullCalls :
           p > h => /\ p > h + 1
                    /\ Is(h + 1, "return", "handle") \/ Is(h + 1, "raise", "handle")

\* Two process_one_message calls made by the caller itself, the handler called in both.
C13_Witness ==
    /\ consumer.frame = "direct"
    /\ consumer.invocations = 2
    /\ Cardinality(PullCalls) = 2
    /\ Cardinality(HandleCalls) = 2

\* A message is in flight from the pull that returned it until acknowledge has returned
\* or its processing has failed.
InFlight ==
    {r \in DOMAIN calls :
        /\ Is(r, "return", "pull")
        /\ calls[r].arg # <<>>
        /\ DecodeError(calls[r].arg) = ""
        /\ \A e \in Iteration(r) : ~Is(e, "return", "acknowledge") /\ calls[e].kind # "raise"}

\* C14: an async consumer never has two messages in flight: whenever it pulls again, the
\* previous pull returned nothing, or its message failed to decode or validate, or the
\* handler or acknowledge raised, or acknowledge has returned.
C14_OneInFlight ==
    consumer.variant = "async" =>
        /\ Cardinality(InFlight) <= 1
        /\ \A p \in PullCalls :
               p > 1 => \/ Is(p - 1, "return", "acknowledge")
                        \/ calls[p - 1].kind = "raise"
                        \/ /\ Is(p - 1, "return", "pull")
                           /\ calls[p - 1].arg = <<>> \/ DecodeError(calls[p - 1].arg) # ""

\* An async consumer is handling its second message, the first one acknowledged.
C14_Witness ==
    /\ consumer.variant = "async"
    /\ consumer.pc = "handle"
    /\ Cardinality(InFlight) = 1
    /\ \E e \in DOMAIN calls : Is(e, "return", "acknowledge")

\* ------------------------------------------------------------ adapter properties, continued

\* C15: between calls no consumer of the adapter is registered on its channel; and a
\* pull on any queue, made on a live channel, returns without raising, leaves no
\* consumer registered, holds afterwards only the delivery it returned besides those
\* held before, and leaves the queue as it was but for the returned message, whatever
\* the number of deliveries the broker pushed to the consume stream.
C15_PullCancelsConsumer ==
    /\ [](\A s \in Subscribers : channel[s].consumer = NoConsumer)
    /\ [][\A q \in Queues, n \in Requested, timeout \in Timeouts :
             \A k \in 0..Len(queue[q]) :
                (channel["s1"].open /\ PullMax("s1", q, n, timeout, k)) =>
                    LET first == channel["s1"].next_tag + 1
                    IN /\ ~last'.raised
                       /\ channel'["s1"].consumer = NoConsumer
                       /\ queue' = [queue EXCEPT ![q] = IF k > 0 THEN Tail(@) ELSE @]
                       /\ DOMAIN channel'["s1"].unacked =
                              DOMAIN channel["s1"].unacked \cup (IF k > 0 THEN {first} ELSE {})
                       /\ k > 0 => channel'["s1"].unacked[first].msg = Head(queue[q])]_vars

\* The broker pushed two messages to the consume stream of a pull; the pull returned the
\* first, and the second is back in the queue.
C15_Witness ==
    /\ last.op = "pull"
    /\ last.response # <<>>
    /\ last.response[1].ack_id = "1"
    /\ channel["s1"].next_tag = 2
    /\ DOMAIN channel["s1"].unacked = {1}
    /\ \E q \in Queues : Len(queue[q]) = 1

\* The place of message m among the messages published to "q1", in publishing order,
\* when nothing is ever taken from "q2".
PlaceInQ1(m) == m.id - Cardinality({i \in DOMAIN queue["q2"] : queue["q2"][i].id < m.id})

Gone ==
    /\ \A q \in Queues : queue[q] = <<>>
    /\ \A s \in Subscribers : DOMAIN channel[s].unacked = {}

\* C17: with a single message published, acknowledging through the adapter the ack id
\* under which the channel holds it removes it: it is afterwards neither ready in a
\* queue nor held; that stays so as long as nothing is published, and every pull made
\* then, on any queue, returns an empty result.
C17_AckRemovesMessage ==
    /\ [][\A q \in Queues, a \in AckIdPool :
              (/\ published = 1
               /\ channel["s1"].open
               /\ a \in DOMAIN pending_acks["s1"]
               /\ pending_acks["s1"][a] \in DOMAIN channel["s1"].unacked
               /\ Acknowledge("s1", q, <<a>>)) => (Gone' /\ ~last'.raised)]_vars
    /\ [][(published = 1 /\ Gone /\ published' = 1) => Gone']_vars
    /\ [][\A q \in Queues, timeout \in Timeouts :
              (published = 1 /\ Gone /\ channel["s1"].open /\ Pull("s1", q, timeout)) =>
                  (last'.response = <<>> /\ ~last'.raised)]_vars

\* The only message published was pulled and acknowledged, and a later pull has returned
\* an empty result.
C17_Witness ==
    /\ published = 1
    /\ Len(native_acks) = 1
    /\ Gone
    /\ channel["s1"].open
    /\ last.op = "pull"
    /\ last.response = <<>>
    /\ ~last.raised

\* The messages ready in some queue, and the messages held unacknowledged by some channel.
Ready == {queue[q][i] : <<q, i>> \in {x \in Queues \X (1..MaxPublished) : x[2] <= Len(queue[x[1]])}}

Held == UNION {{channel[s].unacked[t].msg : t \in DOMAIN channel[s].unacked} : s \in Subscribers}

\* C18: a message held unacknowledged by the channel of an instance becomes ready in a
\* queue again only in a step in which the broker requeues it: a nack with requeue of
\* that delivery, or the closing of that channel; and a pull, on any instance, surfaces
\* only a message that was ready in the queue it pulls from, never one that is held.
C18_OnlyBrokerRequeues ==
    /\ [][\A s \in Subscribers : \A t \in DOMAIN channel[s].unacked :
              LET m == channel[s].unacked[t].msg
              IN m \in Ready' =>
                     \/ /\ last'.op = "basic_nack"
                        /\ last'.nacked[1].sub = s
                        /\ last'.nacked[1].tag = t
                     \/ ~channel'[s].open]_vars
    /\ [][\A s \in Subscribers, q \in Queues : \A k \in 0..Len(queue[q]) :
              (channel[s].open /\ PullOf(s, q, 30, k) /\ last'.response # <<>>) =>
                  \E m \in Ready :
                      /\ m \notin Held
                      /\ \E i \in DOMAIN queue[q] : queue[q][i] = m
                      /\ m.data = last'.response[1].message.data
                      /\ \E t \in DOMAIN channel'[s].unacked :
                             /\ t \notin DOMAIN channel[s].unacked
                             /\ channel'[s].unacked[t].msg = m]_vars

\* An instance holds the only message published, unacknowledged, and a pull through the
\* other instance on the same queue has returned nothing.
C18_Witness ==
    /\ published = 1
    /\ DOMAIN channel["s1"].unacked = {1}
    /\ channel["s1"].unacked[1].queue = "q1"
    /\ last.op = "pull"
    /\ last.sub = "s2"
    /\ last.response = <<>>
    /\ ~last.raised

\* C19: every entry k -> v of a correlation table has k = str(v); and when a pull has
\* surfaced a message, its ack_id is in the table of that instance, mapped to the tag
\* under which the channel holds the delivery of that message, and is the decimal string
\* of that tag.
C19_AckIdIsTagString ==
    /\ \A s \in Subscribers : \A k \in DOMAIN pending_acks[s] : k = str(pending_acks[s][k])
    /\ (last.op = "pull" /\ last.response # <<>>) =>
           LET s == last.sub
               a == last.response[1].ack_id
           IN /\ a \in DOMAIN pending_acks[s]
              /\ a = str(pending_acks[s][a])
              /\ pending_acks[s][a] \in DOMAIN channel[s].unacked
              /\ channel[s].unacked[pending_acks[s][a]].msg.data = last.response[1].message.data

\* A pull has surfaced a delivery under tag 2 with ack id "2", the delivery under tag 1
\* no longer held.
C19_Witness ==
    /\ last.op = "pull"
    /\ last.response # <<>>
    /\ last.response[1].ack_id = "2"
    /\ "2" \in DOMAIN pending_acks["s1"]
    /\ pending_acks["s1"]["2"] = 2
    /\ DOMAIN channel["s1"].unacked = {2}

\* C20: whatever max_messages the request asks for and however many messages the broker
\* pushes to the consume stream, a pull returns zero or one received message, adds at
\* most one entry to the correlation table and makes the channel hold at most one more
\* delivery.
C20_PullAtMostOne ==
    /\ [](last.op = "pull" => Len(last.response) <= 1)
    /\ [][\A q \in Queues, n \in Requested, timeout \in Timeouts :
             \A k \in 0..Len(queue[q]) :
                PullMax("s1", q, n, timeout, k) =>
                    /\ Len(last'.response) <= 1
                    /\ Cardinality(DOMAIN pending_acks'["s1"] \ DOMAIN pending_acks["s1"]) <= 1
                    /\ Cardinality(DOMAIN channel'["s1"].unacked
                                       \ DOMAIN channel["s1"].unacked) <= 1]_vars

\* A pull has returned one message of a queue in which another message is ready.
C20_Witness ==
    /\ last.op = "pull"
    /\ Len(last.response) = 1
    /\ DOMAIN channel["s1"].unacked = {1}
    /\ channel["s1"].next_tag = 1
    /\ Len(queue[channel["s1"].unacked[1].queue]) = 1

\* ------------------------------------------------------------ consumer properties, continued

\* C21: the consumer issues a pull exactly when process_one_message is entered, by the
\* caller or by the loop of run(), one pull per entry; and every pull it has issued names
\* its own subscription with max_messages = 1 and has timeout = 30, whatever happened in
\* the calls before.
C21_OnePullPerCall ==
    /\ [](\A p \in PullCalls :
             calls[p].arg = [request |-> [subscription |-> Subscription, max_messages |-> 1],
                             timeout |-> 30])
    /\ [](consumer.subscription = Subscription)
    /\ [][(consumer.pc # "pull" /\ consumer'.pc = "pull") =>
              /\ consumer.pc \in Callable \cup {"run"}
              /\ Len(calls') = Len(calls) + 1
              /\ calls'[Len(calls')].kind = "call"
              /\ calls'[Len(calls')].op = "pull"]_vars
    /\ [][\A i \in (Len(calls) + 1)..Len(calls') :
              (calls'[i].kind = "call" /\ calls'[i].op = "pull") =>
                  (consumer.pc # "pull" /\ consumer'.pc = "pull")]_vars

\* The second process_one_message call of a consumer has issued its pull, the handler
\* having raised in the first.
C21_Witness ==
    /\ Cardinality(PullCalls) = 2
    /\ Last("call", "pull")
    /\ \E h \in DOMAIN calls : Is(h, "raise", "handle")

\* ------------------------------------------------------------ publisher properties

HasColon(topic) == \E i \in DOMAIN topic : topic[i] = ":"

\* C22: the native publish of a topic with a ":" goes to the exchange named by the text
\* before the first ":" with the text after it as routing key, further ":" included; the
\* native publish of a topic without ":" goes to the default exchange with the topic as
\* routing key, and the message is appended to the queue of that name.
C22_TopicGrammar ==
    [][\A topic \in Topics, kwargs \in Kwargs :
          PublishWith(topic, Payload(published + 1), kwargs) =>
              LET native == last'.sent[1]
              IN IF HasColon(topic)
                 THEN /\ native.exchange \o <<":">> \o native.routing_key = topic
                      /\ \A i \in DOMAIN native.exchange : native.exchange[i] # ":"
                 ELSE /\ native.exchange = <<>>
                      /\ native.routing_key = topic
                      /\ \A q \in Queues :
                            topic = <<q>> =>
                                queue'[q] = Append(queue[q], [id |-> published + 1,
                                                              data |-> Payload(published + 1)])]_vars

\* A topic with two ":" was published: exchange "ex", routing key "a:b".
C22_Witness ==
    /\ last.op = "publish"
    /\ last.sent[1].exchange = <<"ex">>
    /\ last.sent[1].routing_key = <<"a", ":", "b">>

\* C23: the bytes of every message the broker has ready or a channel holds are the bytes
\* that were passed to publish for it, and the data of a message surfaced by pull is the
\* bytes passed to publish for the delivery it was surfaced from, bytes 0 and 255
\* included.
C23_ByteExactRoundTrip ==
    /\ \A m \in Ready \cup Held : m.data = Payload(m.id)
    /\ (last.op = "pull" /\ last.response # <<>>) =>
           LET s == last.sub
               a == last.response[1].ack_id
           IN /\ a \in DOMAIN pending_acks[s]
              /\ pending_acks[s][a] \in DOMAIN channel[s].unacked
              /\ last.response[1].message.data =
                     Payload(channel[s].unacked[pending_acks[s][a]].msg.id)

\* The pull of the first message published has returned its three bytes.
C23_Witness ==
    /\ last.op = "pull"
    /\ last.response # <<>>
    /\ last.response[1].message.data = <<0, 1, 255>>

\* C29: every publish call makes exactly one native basic_publish, with the payload as
\* body and delivery mode 2, the same whatever keyword arguments come with the call, and
\* returns a PublishFuture whose message_id is the empty string.
C29_PublishOnePersistent ==
    /\ [](last.op = "publish" =>
             /\ Len(last.sent) = 1
             /\ last.sent[1].delivery_mode = 2
             /\ last.result = << [message_id |-> ""] >>)
    /\ [][\A topic \in Topics, kwargs \in Kwargs :
             PublishWith(topic, Payload(published + 1), kwargs) =>
                 /\ last'.sent[1].body = Payload(published + 1)
                 /\ \A other \in Kwargs :
                       publish(topic, Payload(published + 1), other).basic_publish = last'.sent]_vars

\* Two messages have been published, the second one just now.
C29_Witness ==
    /\ last.op = "publish"
    /\ published = 2
    /\ last.sent[1].body = Payload(2)
    /\ last.result[1].message_id = ""

\* ------------------------------------------------------------ consumer properties, continued

Operations == {"pull", "handle", "acknowledge"}

Errors == {"SubscriberError", "HandlerError", "JSONDecodeError", "TypeError", "ValidationError"}

\* C24: wherever a consumer of either kind has got to, MessageConsumer and
\* AsyncMessageConsumer do the same thing on every input: start, stop, the loop test of
\* run, a process_one_message call, every pull result, the return of the handler and of
\* acknowledge, and every error, give the same calls with the same arguments, the same
\* propagated error and the same running flag.
C24_SyncAsyncEquivalent ==
    /\ start(consumer) = async_start(consumer)
    /\ stop(consumer) = async_stop(consumer)
    /\ run(consumer, calls) = async_run(consumer, calls)
    /\ \A frame \in {"run", "direct"} :
          process_one_message(Enter(frame), calls) = async_process_one_message(Enter(frame), calls)
    /\ \A response \in Responses :
          process_one_message_dispatch(consumer, calls, response)
              = async_process_one_message_dispatch(consumer, calls, response)
    /\ consumer.response # <<>> =>
          process_one_message_acknowledge(consumer, calls)
              = async_process_one_message_acknowledge(consumer, calls)
    /\ process_one_message_return(consumer, calls) = async_process_one_message_return(consumer, calls)
    /\ \A op \in Operations, error \in Errors :
          process_one_message_raised(consumer, calls, op, error)
              = async_process_one_message_raised(consumer, calls, op, error)

\* An async consumer inside run() has handled a message and waits in acknowledge.
C24_Witness ==
    /\ consumer.variant = "async"
    /\ consumer.frame = "run"
    /\ consumer.pc = "ack"
    /\ Last("call", "acknowledge")

\* C25: an error raised by pull, by the handler or by acknowledge, and a decoding or
\* validation error, ends the process_one_message call and the run() call around it with
\* that error; only an empty pull lets the call go on; after the error the consumer makes
\* no call until its caller invokes it again.
C25_OnlyEmptyPullRecovered ==
    /\ [][\A op \in Operations :
             Happens("raise", op) =>
                 /\ consumer'.pc = "raised"
                 /\ consumer'.error = (IF op = "handle" THEN "HandlerError" ELSE "SubscriberError")
                 /\ Len(calls') = Len(calls) + 1]_vars
    /\ [][(Happens("return", "pull") /\ Outcome # <<>> /\ DecodeError(Outcome) # "") =>
              /\ consumer'.pc = "raised"
              /\ consumer'.error = DecodeError(Outcome)
              /\ Len(calls') = Len(calls) + 1]_vars
    /\ [][(Happens("return", "pull") /\ Outcome = <<>>) =>
              /\ consumer'.pc = Leave(consumer)
              /\ consumer'.error = ""]_vars
    /\ [][(consumer.pc = "raised" /\ (calls' # calls \/ consumer'.pc # "raised")) =>
              /\ consumer'.invocations = consumer.invocations + 1
              /\ consumer'.error = ""]_vars
    /\ [](consumer.pc = "raised" => consumer.error \in Errors)

\* run() has raised the error of an acknowledge call.
C25_Witness ==
    /\ consumer.frame = "run"
    /\ consumer.pc = "raised"
    /\ consumer.error = "SubscriberError"
    /\ Last("raise", "acknowledge")

\* C26: the running flag is false after construction; a step changes it only if it is
\* start() or stop(); a step in which the caller enters the consumer, the consumer makes a
\* call, or a call returns or raises, leaves the flag as it was.
C26_FlagOnlyByStartStop ==
    /\ ~consumer.running
    /\ [][consumer'.running # consumer.running => (Start \/ Stop)]_vars
    /\ [][(calls' # calls \/ consumer'.pc # consumer.pc
              \/ consumer'.invocations # consumer.invocations) =>
              consumer'.running = consumer.running]_vars

\* run() of a started consumer has raised the handler's error, and the flag is still set.
C26_Witness ==
    /\ consumer.frame = "run"
    /\ consumer.pc = "raised"
    /\ consumer.error = "HandlerError"
    /\ consumer.running

\* C27: start() sets the running flag and stop() clears it, whatever it was, so that a
\* second start() or stop() changes nothing; both leave every other field of the consumer
\* as it is and make no call.
C27_StartStopIdempotent ==
    /\ [](/\ start(consumer) = [consumer EXCEPT !.running = TRUE]
          /\ stop(consumer) = [consumer EXCEPT !.running = FALSE]
          /\ async_start(consumer) = [consumer EXCEPT !.running = TRUE]
          /\ async_stop(consumer) = [consumer EXCEPT !.running = FALSE]
          /\ start(start(consumer)) = start(consumer)
          /\ stop(stop(consumer)) = stop(consumer)
          /\ async_start(async_start(consumer)) = async_start(consumer)
          /\ async_stop(async_stop(consumer)) = async_stop(consumer)
          /\ consumer.running => start(consumer) = consumer
          /\ ~consumer.running => stop(consumer) = consumer)
    /\ [][Start => /\ consumer' = [consumer EXCEPT !.running = TRUE]
                   /\ calls' = calls]_vars
    /\ [][Stop => /\ consumer' = [consumer EXCEPT !.running = FALSE]
                  /\ calls' = calls]_vars

\* A started consumer waits in its handler: a start() here is the second one.
C27_Witness ==
    /\ consumer.running
    /\ consumer.pc = "handle"
    /\ consumer.frame = "direct"

\* ------------------------------------------------------------ instances on one connection

\* C28: a pull or an acknowledge on one instance leaves the table and the channel of
\* every other instance unchanged; an acknowledge of an id that is not in the instance's
\* own table issues no native ack, whoever else holds that id; every native ack, and
\* every table entry, is for a delivery made on the instance's own channel.
C28_InstancesAreSeparate ==
    /\ [](\A s \in Subscribers :
             /\ \A a \in DOMAIN pending_acks[s] : pending_acks[s][a] \in 1..channel[s].next_tag
             /\ \A i \in DOMAIN native_acks :
                   native_acks[i].sub = s => native_acks[i].tag \in 1..channel[s].next_tag)
    /\ [][\A s \in Subscribers, q \in Queues : \A k \in Deliveries(q, 30) :
             PullOf(s, q, 30, k) =>
                 \A o \in Subscribers \ {s} :
                     pending_acks'[o] = pending_acks[o] /\ channel'[o] = channel[o]]_vars
    /\ [][\A s \in Subscribers, q \in Queues, a \in AckIdPool :
             Acknowledge(s, q, <<a>>) =>
                 /\ \A o \in Subscribers \ {s} :
                       pending_acks'[o] = pending_acks[o] /\ channel'[o] = channel[o]
                 /\ a \notin DOMAIN pending_acks[s] =>
                       /\ native_acks' = native_acks
                       /\ channel' = channel
                       /\ pending_acks' = pending_acks
                 /\ native_acks' # native_acks =>
                       native_acks' = Append(native_acks,
                                             [sub |-> s, tag |-> pending_acks[s][a]])]_vars

\* Instance "s2" was asked to acknowledge id "1", which only "s1" has in its table:
\* "s1" still holds its delivery.
C28_Witness ==
    /\ last.op = "acknowledge"
    /\ last.sub = "s2"
    /\ last.unknown = {"1"}
    /\ "1" \in DOMAIN pending_acks["s1"]
    /\ DOMAIN channel["s1"].unacked = {1}
    /\ native_acks = <<>>

\* ------------------------------------------------------------ error models
\* ErrorInfo and ErrorDetails, models with camelCase aliases: construction, serialization
\* to JSON and parsing from JSON. A string is the sequence of its characters, an Optional
\* value is None or Some(value), and a JSON text is the tree it denotes, its strings in
\* their escaped form.

None == <<>>
Some(v) == <<v>>

Lowercase == <<"a", "b", "c", "d", "e", "f", "g", "h", "i", "j", "k", "l", "m", "n", "o", "p", "q", "r", "s", "t", "u", "v", "w", "x", "y", "z">>
Uppercase == <<"A", "B", "C", "D", "E", "F", "G", "H", "I", "J", "K", "L", "M", "N", "O", "P", "Q", "R", "S", "T", "U", "V", "W", "X", "Y", "Z">>

Index(letters, c) ==
    IF \E i \in DOMAIN letters : letters[i] = c
    THEN CHOOSE i \in DOMAIN letters : letters[i] = c
    ELSE 0

IsLetter(c) == Index(Lowercase, c) > 0 \/ Index(Uppercase, c) > 0

upper(c) == IF Index(Lowercase, c) > 0 THEN Uppercase[Index(Lowercase, c)] ELSE c

lower(c) == IF Index(Uppercase, c) > 0 THEN Lowercase[Index(Uppercase, c)] ELSE c

\* str.title(): a letter is upper case after a non-letter and lower case after a letter.
title(snake) ==
    [i \in DOMAIN snake |-> IF i = 1 \/ ~IsLetter(snake[i - 1]) THEN upper(snake[i])
                                                                ELSE lower(snake[i])]

RECURSIVE Select(_, _, _)
\* The characters of text at the positions in keep, from position i on.
Select(text, keep, i) ==
    IF i > Len(text) THEN <<>>
    ELSE (IF i \in keep THEN <<text[i]>> ELSE <<>>) \o Select(text, keep, i + 1)

\* to_pascal: title case, then every "_" between a letter and an upper-case letter removed.
to_pascal(snake) ==
    LET camel == title(snake)
        keep == {i \in DOMAIN camel :
                    ~(/\ camel[i] = "_"
                      /\ i > 1
                      /\ i < Len(camel)
                      /\ IsLetter(camel[i - 1])
                      /\ Index(Uppercase, camel[i + 1]) > 0)}
    IN Select(camel, keep, 1)

\* An alias generator that leaves the field name as it is.
to_camel_snake(snake) == snake

\* to_camel, the alias generator of CamelCaseModel: a name that is camelCase already is
\* kept, any other is put in PascalCase and its first letter in lower case.
to_camel(snake) ==
    IF snake # <<>> /\ Index(Lowercase, snake[1]) > 0 /\ \A i \in DOMAIN snake : IsLetter(snake[i])
    THEN snake
    ELSE LET camel == to_pascal(snake)
         IN [i \in DOMAIN camel |-> IF \A j \in 1..(i - 1) : camel[j] = "_"
                                    THEN lower(camel[i]) ELSE camel[i]]

\* The fields of the two models, in declaration order.
ErrorDetailsFields == << <<"f", "i", "l", "e", "_", "p", "a", "t", "h">>,
                         <<"e", "r", "r", "o", "r", "_", "c", "o", "d", "e">>,
                         <<"s", "t", "a", "c", "k", "_", "t", "r", "a", "c", "e">> >>

ErrorInfoFields == << <<"t", "y", "p", "e">>, <<"m", "e", "s", "s", "a", "g", "e">>, <<"d", "e", "t", "a", "i", "l", "s">> >>

ErrorDetails(file_path, error_code, stack_trace) ==
    [file_path |-> file_path, error_code |-> error_code, stack_trace |-> stack_trace]

ErrorInfo(type, message, details) == [type |-> type, message |-> message, details |-> details]

\* Values of the fields: strings with and without characters that JSON escapes (the
\* quote, the backslash, the line feed).
TypeStrings == { <<"v">>, <<"\\">> }
MessageStrings == { <<>>, <<"m", "\"">> }
OptionalStrings == { None, Some(<<"x", "\"", "\n", "n">>) }

ErrorInfos ==
    {ErrorInfo(type, message, None) : type \in TypeStrings, message \in MessageStrings}
    \cup {ErrorInfo(type, message, Some(ErrorDetails(file_path, error_code, stack_trace))) :
             type \in TypeStrings, message \in MessageStrings,
             file_path \in OptionalStrings, error_code \in OptionalStrings,
             stack_trace \in OptionalStrings}

\* JSON values.
JsonNull == [t |-> "null", v |-> <<>>]

RECURSIVE escape(_)
escape(chars) ==
    IF chars = <<>> THEN <<>>
    ELSE (IF Head(chars) \in {"\"", "\\"} THEN <<"\\", Head(chars)>>
          ELSE IF Head(chars) = "\n" THEN <<"\\", "n">>
          ELSE <<Head(chars)>>)
         \o escape(Tail(chars))

RECURSIVE unescape(_)
unescape(text) ==
    IF text = <<>> THEN <<>>
    ELSE IF Head(text) = "\\" /\ Len(text) > 1
    THEN <<IF text[2] = "n" THEN "\n" ELSE text[2]>> \o unescape(Tail(Tail(text)))
    ELSE <<Head(text)>> \o unescape(Tail(text))

JsonString(chars) == [t |-> "string", v |-> escape(chars)]

JsonObjectOf(members) == [t |-> "object", v |-> members]

\* The members of a serialized model: one per field, under its alias or its name, a field
\* that is None left out if exclude_none is set.
Members(fields, values, by_alias, exclude_none) ==
    LET member(i) == [key |-> IF by_alias THEN to_camel(fields[i]) ELSE fields[i],
                      value |-> values[i]]
        Kept(m) == ~(exclude_none /\ m.value.t = "null")
    IN SelectSeq([i \in DOMAIN fields |-> member(i)], Kept)

dump_optional_str(value) == IF value = None THEN JsonNull ELSE JsonString(value[1])

\* model_dump_json(by_alias=..., exclude_none=...) of an ErrorInfo.
model_dump_json(self, by_alias, exclude_none) ==
    LET details ==
            IF self.details = None THEN JsonNull
            ELSE JsonObjectOf(Members(ErrorDetailsFields,
                                      << dump_optional_str(self.details[1].file_path),
                                         dump_optional_str(self.details[1].error_code),
                                         dump_optional_str(self.details[1].stack_trace) >>,
                                      by_alias, exclude_none))
    IN Members(ErrorInfoFields, <<JsonString(self.type), JsonString(self.message), details>>,
               by_alias, exclude_none)

\* The value given for a field: populate_by_name lets the alias and the name both count,
\* and the last of several members wins. <<>> if there is none.
Find(members, name) ==
    LET hits == {i \in DOMAIN members : members[i].key \in {to_camel(name), name}}
    IN IF hits = {} THEN <<>>
       ELSE <<members[CHOOSE i \in hits : \A j \in hits : j <= i].value>>

validate_str(found) ==
    IF found # <<>> /\ found[1].t = "string"
    THEN [raised |-> FALSE, value |-> unescape(found[1].v)]
    ELSE [raised |-> TRUE, value |-> <<>>]

validate_optional_str(found) ==
    IF found = <<>> \/ found[1].t = "null" THEN [raised |-> FALSE, value |-> None]
    ELSE IF found[1].t = "string" THEN [raised |-> FALSE, value |-> Some(unescape(found[1].v))]
    ELSE [raised |-> TRUE, value |-> None]

validate_details(found) ==
    IF found = <<>> \/ found[1].t = "null" THEN [raised |-> FALSE, value |-> None]
    ELSE IF found[1].t # "object" THEN [raised |-> TRUE, value |-> None]
    ELSE LET file_path == validate_optional_str(Find(found[1].v, ErrorDetailsFields[1]))
             error_code == validate_optional_str(Find(found[1].v, ErrorDetailsFields[2]))
             stack_trace == validate_optional_str(Find(found[1].v, ErrorDetailsFields[3]))
         IN IF file_path.raised \/ error_code.raised \/ stack_trace.raised
            THEN [raised |-> TRUE, value |-> None]
            ELSE [raised |-> FALSE,
                  value |-> Some(ErrorDetails(file_path.value, error_code.value,
                                              stack_trace.value))]

\* ErrorInfo.model_validate_json(json): the ErrorInfo, or a ValidationError raised.
model_validate_json(members) ==
    LET type == validate_str(Find(members, ErrorInfoFields[1]))
        message == validate_str(Find(members, ErrorInfoFields[2]))
        details == validate_details(Find(members, ErrorInfoFields[3]))
    IN IF type.raised \/ message.raised \/ details.raised
       THEN [raised |-> TRUE, value |-> <<>>]
       ELSE [raised |-> FALSE, value |-> ErrorInfo(type.value, message.value, details.value)]

ErrorInit ==
    /\ original \in ErrorInfos
    /\ json_str = <<>>
    /\ restored = <<>>

ModelDumpJson(by_alias, exclude_none) ==
    /\ json_str = <<>>
    /\ json_str' = << [by_alias |-> by_alias, exclude_none |-> exclude_none,
                       text |-> model_dump_json(original, by_alias, exclude_none)] >>
    /\ UNCHANGED <<original, restored>>
    /\ UNCHANGED <<adapter_vars, consumer_vars>>

ModelValidateJson ==
    /\ json_str # <<>>
    /\ restored = <<>>
    /\ restored' = <<model_validate_json(json_str[1].text)>>
    /\ UNCHANGED <<original, json_str>>
    /\ UNCHANGED <<adapter_vars, consumer_vars>>

NextError ==
    \/ \E by_alias \in BOOLEAN, exclude_none \in BOOLEAN : ModelDumpJson(by_alias, exclude_none)
    \/ ModelValidateJson

InitError == AdapterInit /\ consumer = Unused /\ calls = <<>> /\ ErrorInit

SpecError == InitError /\ [][NextError]_vars

\* The keys of a JSON object and of the objects in it.
Keys(members) ==
    {members[i].key : i \in DOMAIN members}
    \cup UNION {{members[i].value.v[j].key : j \in DOMAIN members[i].value.v} :
                 i \in {k \in DOMAIN members : members[k].value.t = "object"}}

CamelCaseKeys ==
    { <<"t", "y", "p", "e">>, <<"m", "e", "s", "s", "a", "g", "e">>, <<"d", "e", "t", "a", "i", "l", "s">>,
      <<"f", "i", "l", "e", "P", "a", "t", "h">>,
      <<"e", "r", "r", "o", "r", "C", "o", "d", "e">>,
      <<"s", "t", "a", "c", "k", "T", "r", "a", "c", "e">> }

\* C30: the JSON an ErrorInfo is serialized to by alias has only the keys type, message,
\* details, filePath, errorCode and stackTrace, all three of each object when None fields
\* are not left out; and parsing it raises nothing and gives an ErrorInfo equal to the
\* original, field by field, whichever of the details fields are populated.
C30_ErrorInfoRoundTrip ==
    /\ (json_str # <<>> /\ json_str[1].by_alias) =>
          /\ Keys(json_str[1].text) \subseteq CamelCaseKeys
          /\ ~json_str[1].exclude_none =>
                /\ Len(json_str[1].text) = 3
                /\ original.details # None => Cardinality(Keys(json_str[1].text)) = 6
    /\ (restored # <<>> /\ json_str[1].by_alias) =>
          /\ ~restored[1].raised
          /\ restored[1].value.type = original.type
          /\ restored[1].value.message = original.message
          /\ restored[1].value.details = original.details
          /\ restored[1].value = original

\* An ErrorInfo whose details have only the error code was serialized by alias and
\* parsed back.
C30_Witness ==
    /\ restored # <<>>
    /\ json_str[1].by_alias
    /\ ~json_str[1].exclude_none
    /\ original.details # None
    /\ original.details[1].file_path = None
    /\ original.details[1].error_code # None
    /\ original.details[1].stack_trace = None

\* ------------------------------------------------------------ termination of run()
\* A consumer whose collaborators always answer: every pull returns, with nothing or
\* with a message that decodes and validates, and the handler and acknowledge return.

Decodable == {response \in Responses : response = <<>> \/ DecodeError(response) = ""}

PullReturnsDecodable == \E response \in Decodable : PullReturns(response)

NextReturning ==
    \/ Start
    \/ Stop
    \/ RunCall
    \/ RunLoop
    \/ ProcessOneMessageCall
    \/ PullReturnsDecodable
    \/ HandleReturns
    \/ AcknowledgeReturns

\* The loop of run() goes on by itself, and each call in progress returns.
SpecReturning ==
    /\ InitConsumer
    /\ [][NextReturning]_vars
    /\ WF_vars(RunLoop)
    /\ WF_vars(PullReturnsDecodable)
    /\ WF_vars(HandleReturns)
    /\ WF_vars(AcknowledgeReturns)

InRun == consumer.frame = "run" /\ consumer.pc \notin Callable

\* C31: once the flag is false inside run(), run() returns, unless start() sets the flag
\* again first; and from the moment the flag is false run() begins no new iteration: it
\* makes no pull call, only the handler and acknowledge calls of the iteration in progress.
C31_RunReturnsOnceStopped ==
    /\ (InRun /\ ~consumer.running) ~> (consumer.pc = "returned" \/ consumer.running)
    /\ [][(InRun /\ ~consumer.running) =>
              /\ \A i \in (Len(calls) + 1)..Len(calls') :
                    ~(calls'[i].kind = "call" /\ calls'[i].op = "pull")
              /\ consumer'.pc \in {"run", "pull", "handle", "ack", "returned"}
              /\ consumer.pc = "run" => consumer'.pc \in {"run", "returned"}]_vars

\* run() of an async consumer was stopped during an iteration, completed it with the
\* acknowledge and returned.
C31_Witness ==
    /\ consumer.variant = "async"
    /\ consumer.frame = "run"
    /\ consumer.pc = "returned"
    /\ ~consumer.running
    /\ Last("return", "acknowledge")

\* ------------------------------------------------------------ adapter properties, continued

Elements(ids) == {ids[i] : i \in DOMAIN ids}

RECURSIVE FirstOccurrences(_)
\* A list without the repetitions of its elements, in the order of first occurrence.
FirstOccurrences(ids) ==
    IF ids = <<>> THEN <<>>
    ELSE LET front == FirstOccurrences(SubSeq(ids, 1, Len(ids) - 1))
             x == ids[Len(ids)]
         IN IF \E i \in DOMAIN front : front[i] = x THEN front ELSE Append(front, x)

\* C32: an acknowledge call that raises nothing leaves the table as it was without the
\* requested ids, and has issued one native basic_ack for each requested id that was in
\* the table, in the order of the request, with the delivery tag the table had for it, and
\* no other native ack.
C32_AcknowledgeList ==
    [][\A q \in Queues, ack_ids \in AckIdLists :
          (/\ last'.op = "acknowledge"
           /\ ~last'.raised
           /\ last'.unknown = Elements(ack_ids) \ DOMAIN pending_acks["s1"]
           /\ Acknowledge("s1", q, ack_ids)) =>
              LET table == pending_acks["s1"]
                  InTable(a) == a \in DOMAIN table
                  found == FirstOccurrences(SelectSeq(ack_ids, InTable))
              IN /\ pending_acks'["s1"] =
                        [x \in (DOMAIN table) \ {ack_ids[i] : i \in DOMAIN ack_ids} |-> table[x]]
                 /\ native_acks' =
                        native_acks \o [i \in DOMAIN found |-> [sub |-> "s1", tag |-> table[found[i]]]]]_vars

\* One acknowledge call, or two, has acknowledged the second delivery and then the first.
C32_Witness ==
    /\ last.op = "acknowledge"
    /\ ~last.raised
    /\ last.unknown = {}
    /\ native_acks = << [sub |-> "s1", tag |-> 2], [sub |-> "s1", tag |-> 1] >>
    /\ pending_acks["s1"] = <<>>

\* C33: the delivery tags of a channel never decrease; a pull that surfaces a message
\* gives it the decimal string of a tag above every tag the channel had used before,
\* which is the string of none of them: an id that is not in the table and is the id of
\* no delivery the instance has acknowledged; and the tags a cancelled consume stream
\* used up are not used again.
C33_AckIdsNeverRepeat ==
    /\ [][\A s \in Subscribers : channel'[s].next_tag >= channel[s].next_tag]_vars
    /\ [][\A q \in Queues, n \in Requested, timeout \in Timeouts : \A k \in Deliveries(q, timeout) :
             (/\ last'.op = "pull"
              /\ last'.response # <<>>
              /\ PullMax("s1", q, n, timeout, k)) =>
                 LET a == last'.response[1].ack_id
                     used == channel["s1"].next_tag
                 IN /\ a = str(used + 1)
                    /\ channel'["s1"].next_tag = used + k
                    /\ \A t \in 1..used : str(t) # a
                    /\ a \notin DOMAIN pending_acks["s1"]
                    /\ \A i \in DOMAIN native_acks :
                          native_acks[i].sub = "s1" => str(native_acks[i].tag) # a]_vars

\* The instance has acknowledged "1" and a later pull has returned "2".
C33_Witness ==
    /\ last.op = "pull"
    /\ last.response # <<>>
    /\ last.response[1].ack_id = "2"
    /\ native_acks = << [sub |-> "s1", tag |-> 1] >>
    /\ "1" \notin DOMAIN pending_acks["s1"]

\* ------------------------------------------------------------ conservation of messages

\* The places message n is in: positions of queues, and deliveries held by channels.
InQueue(n) ==
    {x \in Queues \X (1..MaxPublished) : x[2] <= Len(queue[x[1]]) /\ queue[x[1]][x[2]].id = n}

HeldBy(n) ==
    {x \in Subscribers \X (1..MaxDeliveries) :
        x[2] \in DOMAIN channel[x[1]].unacked /\ channel[x[1]].unacked[x[2]].msg.id = n}

\* The messages that are ready or held, by the order in which they were published.
Present ==
    UNION {{queue[q][i].id : i \in DOMAIN queue[q]} : q \in Queues}
    \cup UNION {{channel[s].unacked[x].msg.id : x \in DOMAIN channel[s].unacked} : s \in Subscribers}

\* C34: every published message is ready in one queue, or held by one channel under one
\* tag, or in neither place, never in two; a held delivery has an entry in the table of
\* the instance whose channel holds it; a message leaves both places only in a step in
\* which the instance that holds it acknowledges the id of that delivery, and is then
\* gone for good; a publish adds exactly the new message; a pull moves messages between
\* the queue and the channel and loses none.
C34_MessageConservation ==
    /\ [](/\ \A m \in Ready \cup Held : m.id \in 1..published
          /\ \A n \in 1..published : Cardinality(InQueue(n)) + Cardinality(HeldBy(n)) <= 1
          /\ \A s \in Subscribers : \A t \in DOMAIN channel[s].unacked :
                \E a \in DOMAIN pending_acks[s] : pending_acks[s][a] = t)
    /\ [][\A n \in Present \ Present' :
             \E s \in Subscribers, q \in Queues, a \in AckIdPool :
                 /\ a \in DOMAIN pending_acks[s]
                 /\ <<s, pending_acks[s][a]>> \in HeldBy(n)
                 /\ Acknowledge(s, q, <<a>>)]_vars
    /\ [][Present' \cap (1..published) \subseteq Present]_vars
    /\ [][last'.op = "pull" => (Ready \cup Held)' = Ready \cup Held]_vars
    /\ [][published' # published =>
             /\ published' = published + 1
             /\ (Ready \cup Held)' = (Ready \cup Held)
                                         \cup {[id |-> published', data |-> Payload(published')]}
             /\ Held' = Held]_vars

\* Of two messages published, the first was acknowledged through "s1" and is gone, and
\* the second is held by "s2".
C34_Witness ==
    /\ published = 2
    /\ native_acks = << [sub |-> "s1", tag |-> 1] >>
    /\ InQueue(1) \cup HeldBy(1) = {}
    /\ HeldBy(2) = {<<"s2", 1>>}
    /\ "1" \in DOMAIN pending_acks["s2"]

\* ------------------------------------------------------------ acknowledge, continued

\* C35: when an acknowledge call raises, it is at one requested id that was in the
\* table and whose native ack failed on a closed channel: that id is no longer in the
\* table, the ids before it are removed and the ones of them that were in the table have
\* their native ack, and the ids after it are in the table as before, with no native ack.
C35_PopBeforeAck ==
    [][\A q \in Queues, ack_ids \in AckIdLists :
          (/\ last'.op = "acknowledge"
           /\ last'.raised
           /\ Acknowledge("s1", q, ack_ids)) =>
              LET table == pending_acks["s1"]
                  InTable(a) == a \in DOMAIN table
              IN \E j \in DOMAIN ack_ids :
                    LET failed == ack_ids[j]
                        before == SubSeq(ack_ids, 1, j - 1)
                        acked == FirstOccurrences(SelectSeq(before, InTable))
                    IN /\ failed \in DOMAIN table
                       /\ failed \notin Elements(before)
                       /\ failed \notin DOMAIN pending_acks'["s1"]
                       /\ ~channel'["s1"].open
                       /\ pending_acks'["s1"] =
                              [x \in (DOMAIN table) \ (Elements(before) \cup {failed}) |-> table[x]]
                       /\ native_acks' =
                              native_acks \o [i \in DOMAIN acked |->
                                                 [sub |-> "s1", tag |-> table[acked[i]]]]
                       /\ \A i \in (j + 1)..Len(ack_ids) :
                             (InTable(ack_ids[i]) /\ ack_ids[i] \notin Elements(before) \cup {failed}) =>
                                 /\ ack_ids[i] \in DOMAIN pending_acks'["s1"]
                                 /\ pending_acks'["s1"][ack_ids[i]] = table[ack_ids[i]]]_vars

\* An acknowledge has raised on a closed channel with one entry left in the table: the
\* entry of the id that came after the one that failed, or of an id that was not asked for.
C35_Witness ==
    /\ last.op = "acknowledge"
    /\ last.raised
    /\ ~channel["s1"].open
    /\ native_acks = <<>>
    /\ DOMAIN pending_acks["s1"] = {"2"}

\* C36: what an acknowledge does is determined by the adapter state and the ack ids of
\* the request alone, the same for every subscription the request may name: the native
\* acks, the table, the channel and the outcome; so the id of a delivery pulled from one
\* queue is acknowledged by a request that names another queue.
C36_AckIgnoresSubscription ==
    /\ [][\A q \in Queues, ack_ids \in AckIdLists :
             (/\ last'.op = "acknowledge"
              /\ last'.unknown = Elements(ack_ids) \ DOMAIN pending_acks["s1"]
              /\ Acknowledge("s1", q, ack_ids)) =>
                 LET r == acknowledge([b |-> Broker, table |-> pending_acks["s1"],
                                       acks |-> native_acks, raised |-> FALSE], "s1", ack_ids)
                 IN /\ native_acks' = r.acks
                    /\ pending_acks'["s1"] = r.table
                    /\ channel' = r.b.channel
                    /\ queue' = r.b.queue
                    /\ last'.raised = r.raised]_vars
    /\ [][\A q \in Queues, a \in AckIdPool :
             (/\ last'.op = "acknowledge"
              /\ channel["s1"].open
              /\ a \in DOMAIN pending_acks["s1"]
              /\ pending_acks["s1"][a] \in DOMAIN channel["s1"].unacked
              /\ channel["s1"].unacked[pending_acks["s1"][a]].queue # q
              /\ Acknowledge("s1", q, <<a>>)) =>
                 /\ native_acks' = Append(native_acks, [sub |-> "s1", tag |-> pending_acks["s1"][a]])
                 /\ a \notin DOMAIN pending_acks'["s1"]
                 /\ pending_acks["s1"][a] \notin DOMAIN channel'["s1"].unacked
                 /\ ~last'.raised]_vars

\* The only delivery the channel ever made was of the second message, which was not in
\* "q1", where the first message still waits: it was pulled from "q2", and an acknowledge
\* has settled it, whether its request named "q1" or "q2".
C36_Witness ==
    /\ last.op = "acknowledge"
    /\ published = 2
    /\ channel["s1"].next_tag = 1
    /\ native_acks = << [sub |-> "s1", tag |-> 1] >>
    /\ InQueue(1) = {<<"q1", 1>>}
    /\ InQueue(2) \cup HeldBy(2) = {}

====
